---------------------------- MODULE Spec2Model ----------------------------
(***************************************************************************)
(* LLMCoderAgent: the file-review orchestration pipeline of the VS Code    *)
(* extension, as state machines translated from the TypeScript sources.    *)
(*                                                                         *)
(*   SpecGate    File Mutation Gate   applyFileChanges (src/extension.ts), *)
(*                                    applyFileContent (part_004)          *)
(*   SpecRetry   Retry Dispatcher     getLLMResponse (part_004)            *)
(*   SpecLoader  Content Loader       readFileContent / reviewFile         *)
(*   SpecBatch   review-project       processFilesConcurrently, reviewFile *)
(*                                    (src/extension.ts, part_004)         *)
(*   SpecFilter  Inclusion Filter     shouldIncludeFile                    *)
(*   SpecFind    File enumeration     findFiles (src/extension.ts,         *)
(*                                    part_004)                            *)
(*   SpecApply   Apply loop           auto-apply (src/extension.ts),       *)
(*                                    applyAll handler (part_004)          *)
(*   SpecReply   Sanitizer, parser    getLLMResponse, reviewFile and the   *)
(*                                    commands that show a reply           *)
(*   SpecIssues    extractIssues and the diagnostics (part_004)            *)
(*   SpecAcquire   getLLMProvider, configureLLM, activate                  *)
(*   SpecChat      the chat history of the openChat handler                *)
(*   SpecCommand   reviewSelection, reviewGitDiff, refactorFile            *)
(*   SpecRealtime  RealTimeCodeAccessManager (part_004)                    *)
(*   SpecPrompt    the request string of reviewFile                        *)
(*   SpecDebounce  debounce, toggleRealTime(false), dispose                *)
(*   SpecCache     readFileContent with fileCache                          *)
(*                                                                         *)
(* Each specification moves the variables of its own component and leaves  *)
(* the variables of the other components at their idle values.             *)
(***************************************************************************)
EXTENDS Integers, Sequences, FiniteSets, TLC

VARIABLES
    \* ---- File Mutation Gate ----
    gateImpl,        \* which revision runs: "applyFileChanges" | "applyFileContent"
    autoApply,       \* config autoApplyChanges
    newContent,      \* the proposed replacement
    diskContent,     \* the target file's bytes on disk
    docText,         \* the text of the opened TextDocument (may be dirty)
    currentContent,  \* document.getText() as read at entry, -1 before
    origDisk,        \* diskContent when the gate was entered (history)
    gatePc,          \* position of the gate between two awaits
    apply,           \* the answer of showInformationMessage
    backups,         \* contents of the backup files created by this run
    gateResult,      \* "none" | "true" | "false" | "thrown"
    gateEvents,      \* what the run did and reported, in order
    gateFailedAt,    \* "none" | the step whose I/O failed
    \* ---- Retry Dispatcher ----
    apiMaxRetries,   \* config apiMaxRetries
    apiRetryDelay,   \* config apiRetryDelay
    attempt,         \* the loop variable of getLLMResponse
    retryPc,         \* "off" | "start" | "call" | "sleep" | "returned" | "failed"
    outcomes,        \* the outcome of each provider.getResponse call, in order
    sleeps,          \* the delay of each backoff sleep, in order
    retryResult,     \* what getLLMResponse returned or threw
    \* ---- Content Loader and the single-file review ----
    maxFileSize,     \* config maxFileSize (shared with the batch)
    loaderImpl,      \* which revision runs
    file,            \* the file's characters, each given by its UTF-8 width
    loaderPc,        \* "off" | "stat" | "read" | "review" | "done"
    content,         \* the decoded text readFileContent returned, <<>> before
    loaderResult,    \* how the review of the file ended
    sent,            \* the contents handed to getLLMResponse, in order
    \* ---- review-project ----
    fileUris,        \* the enumerated files, each given by its size in bytes
    reviewBatchSize, \* config reviewBatchSize
    batchPc,         \* "off" | "start" | "running" | "done" | "noFiles" | "cancelled"
    queue,           \* processFilesConcurrently: the indices still queued
    workers,         \* per worker: its position and the file it holds
    results,         \* processFilesConcurrently: the FileReviews pushed
    backendCalls,    \* per file: the number of requests posted for it
    errorLog,        \* the files whose processing error was logged
    batchImpl,       \* which revision runs
    processed,       \* part_004: the counter "processed"
    errors,          \* part_004: the counter "errors"
    cancelRequested, \* token.isCancellationRequested
    panelHtml,       \* what the Project Review panel shows
    summary,         \* the FileReviews rendered in the final summary
    shownProgress,   \* the counts the progress display showed last
    errorTrail,      \* where the command's error has been written, in order
    \* ---- Inclusion Filter ----
    relativePath,    \* vscode.workspace.asRelativePath(uri), as segments
    includePatterns, \* config includePatterns
    excludePatterns, \* config excludePatterns
    filterPc,        \* "off" | "call" | "returned"
    filterResult,    \* what shouldIncludeFile returned, "none" before
    filterLog,       \* the lines the call wrote to the output channel
    \* ---- File enumeration ----
    findImpl,        \* which revision runs
    tree,            \* the entries of the top directory
    workspaceFolders,\* the folders findFiles is given, as paths in the tree
    maxFiles,        \* config maxFiles
    findPc,          \* "off" | "enumerate" | "enumerated"
    found,           \* the paths findFiles yielded, in order
    \* ---- Applying the suggestions of a review-project ----
    applyImpl,       \* which revision runs
    reviews,         \* the paths of the reviews that carry suggestedChanges
    runs,            \* per run of the apply loop: its position and review
    mutations,       \* the backups and writes made, in order
    applyErrors,     \* the gate failures reported, in order
    \* ---- From the backend reply to the panel, the chat and the parser ----
    replyImpl,       \* which revision runs
    commandPath,     \* the command that asked for the reply
    rawReply,        \* the text of the backend's answer
    replyPc,         \* "off" | "call" | "received" | "parsed" | "done"
    review,          \* what getLLMResponse returned, <<>> before
    suggestedChanges,\* the field of the FileReview: present or not, its text
    parsed,          \* the texts the Review Parser matched, in order
    displayed,        \* the texts handed to a panel or to the chat, in order
    \* ---- Issue extraction and the diagnostics built from it ----
    issueCaller,     \* who called reviewFile: a command or handleFileEvent
    reviewLines,     \* the lines of the backend's review
    lineCount,       \* document.lineCount of the reviewed file
    issuesPc,        \* "off" | "extract" | "diagnose" | "returned" | "thrown" | "clamped"
    issues,          \* the Issues reviewFile extracted, in order
    diagnostics,      \* per consumer: the line index of each Diagnostic it set
    \* ---- Activation and credential acquisition ----
    actImpl,         \* which revision runs
    settings,        \* extension.ts: whether flowiseUrl and apiToken are set
    activatePc,      \* "off" | "start" | "acquiring" | "done"
    commands,        \* the commands registered so far
    llmProvider,     \* config.llmProvider
    secrets,         \* context.secrets: the credential stored under each key
    attempts,        \* getLLMProvider: the local "attempts"
    acqPc,           \* "idle" | "try" | "caught" | "warning" | "returned" | "thrown"
    adapter,         \* what getLLMProvider returned, "none" before
    lastTest,        \* the last testConnection of getLLMProvider and of configureLLM
    testsSinceSwitch,\* connection tests of this acquisition since its last switch
    failedCredentials,\* the credentials whose connection test has failed
    acquisitions,    \* the calls of getLLMProvider so far
    switches,        \* the backend switches made from the warning so far
    warningAnswer,   \* the answer to the last warning of this acquisition
    \* ---- Chat history ----
    messageHistoryLimit, \* config messageHistoryLimit
    chatHistory,     \* the retained messages
    chatLog,         \* every message pushed since the history was last reset
    pendingTurns,    \* the sendMessage handlers that await the backend
    turns,           \* the sendMessage messages received so far
    failedTurns,     \* the turns whose backend request failed
    chatSince,       \* "start" | "reset" | "message": what happened last
    \* ---- The review commands that show a reply in a panel ----
    command,         \* the command that runs
    cmdPc,           \* "off" | "start" | "acquired" | "reviewing" | "done" | "failed"
    selection,       \* reviewSelection: document.getText(range)
    diffs,           \* reviewGitDiff: what getGitDiff returned
    diffReviews,     \* reviewGitDiff: the files reviewed so far
    cmdPanel,        \* what the command's panel shows, "none" without a panel
    fileEffects,      \* gate entries, backups and file writes, in order
    \* ---- Real-time code access ----
    realTimeDiagnostics, \* this.config.realTimeDiagnostics of the manager
    isRealTimeEnabled,   \* the manager's flag
    watcher,         \* whether the file system watcher exists
    switchedBy,      \* who set the mode last: "none" | "constructor" | "command"
    rtFiles,         \* per path: whether the filter includes it, and its size
    statPending,     \* the paths whose handleFileEvent awaits fs.stat
    debounceTimers,  \* the paths that have a debounce timer set
    reReviews,       \* the paths reviewFile was called for, in order
    awaited,         \* the paths with an event not yet followed by a re-review
    rtEvents,        \* the watcher events delivered so far
    toggles,          \* the toggleRealTime commands run so far
    \* ---- The request string of a file review ----
    promptImpl,      \* which revision runs
    reviewPrompt,    \* config reviewPrompt, <<>> when not set
    targetPath,      \* vscode.workspace.asRelativePath(uri), as words
    targetContent,   \* what readFileContent returned, as words
    promptPc,        \* "off" | "build" | "built" | "sent"
    prompt,          \* the string handed to getLLMResponse
    \* ---- The debounce timers of the manager, one by one ----
    dbDiagnostics,   \* config realTimeDiagnostics of activate
    dbWatcher,       \* the manager's watcher exists
    dbDisposed,      \* the manager was disposed
    timersByKey,     \* the Map debounceTimers: per path its timer, 0 for none
    timerKeys,       \* per timer created: the path it was created for
    timerEpoch,      \* per timer created: the switch-offs before it (history)
    armedTimers,     \* the timers that can still fire
    runningTimers,   \* the timers whose callback awaits its review
    dbStatPending,   \* the paths whose handleFileEvent awaits fs.stat
    switchOffs,      \* the switch-offs and disposals so far
    dbEvents,        \* the events received so far
    dbToggles,        \* the toggleRealTime commands run so far
    \* ---- The content cache of the manager ----
    cacheDisk,       \* per path: the text of the file on disk, "absent" for none
    fileCache,       \* the Map fileCache: per path its text, "none" for no entry
    projectContext,  \* the Map projectContext, likewise
    cacheChanges,    \* the paths with a create or change notification to handle
    cacheDeletes,    \* the paths with a delete notification to handle
    lastRead,        \* the last readFileContent: what it returned, what was on disk
    cacheEvents      \* the changes of the disk so far

gateVars == <<gateImpl, autoApply, newContent, diskContent, docText,
              currentContent, origDisk, gatePc, apply, backups, gateResult,
              gateEvents, gateFailedAt>>

retryVars == <<apiMaxRetries, apiRetryDelay, attempt, retryPc, outcomes,
               sleeps, retryResult>>

loaderVars == <<loaderImpl, file, loaderPc, content, loaderResult, sent>>

batchVars == <<fileUris, reviewBatchSize, batchPc, queue, workers, results,
               backendCalls, errorLog, batchImpl, processed, errors,
               cancelRequested, panelHtml, summary, shownProgress,
               errorTrail>>

filterVars == <<relativePath, includePatterns, excludePatterns, filterPc,
                filterResult, filterLog>>

findVars == <<findImpl, tree, workspaceFolders, maxFiles, findPc, found>>

applyVars == <<applyImpl, reviews, runs, mutations, applyErrors>>

replyVars == <<replyImpl, commandPath, rawReply, replyPc, review,
               suggestedChanges, parsed, displayed>>

issuesVars == <<issueCaller, reviewLines, lineCount, issuesPc, issues,
                diagnostics>>

acquireVars == <<actImpl, settings, activatePc, commands, llmProvider,
                 secrets, attempts, acqPc, adapter, lastTest,
                 testsSinceSwitch, failedCredentials, acquisitions,
                 switches, warningAnswer>>

chatVars == <<messageHistoryLimit, chatHistory, chatLog, pendingTurns,
              turns, failedTurns, chatSince>>

commandVars == <<command, cmdPc, selection, diffs, diffReviews, cmdPanel,
                 fileEffects>>

realtimeVars == <<realTimeDiagnostics, isRealTimeEnabled, watcher,
                  switchedBy, rtFiles, statPending, debounceTimers,
                  reReviews, awaited, rtEvents, toggles>>

promptVars == <<promptImpl, reviewPrompt, targetPath, targetContent,
                promptPc, prompt>>

debounceVars == <<dbDiagnostics, dbWatcher, dbDisposed, timersByKey,
                  timerKeys, timerEpoch, armedTimers, runningTimers,
                  dbStatPending, switchOffs, dbEvents, dbToggles>>

cacheVars == <<cacheDisk, fileCache, projectContext, cacheChanges,
               cacheDeletes, lastRead, cacheEvents>>

vars == <<gateVars, retryVars, maxFileSize, loaderVars, batchVars,
          filterVars, findVars, applyVars, replyVars, issuesVars,
          acquireVars, chatVars, commandVars, realtimeVars, promptVars,
          debounceVars, cacheVars>>

\* What each component leaves alone.
gateFrame == <<retryVars, maxFileSize, loaderVars, batchVars, filterVars,
               findVars, applyVars, replyVars, issuesVars, acquireVars,
               chatVars, commandVars, realtimeVars, promptVars,
               debounceVars, cacheVars>>

retryFrame == <<gateVars, maxFileSize, loaderVars, batchVars, filterVars,
                findVars, applyVars, replyVars, issuesVars, acquireVars,
                chatVars, commandVars, realtimeVars, promptVars,
                debounceVars, cacheVars>>

loaderFrame == <<gateVars, retryVars, batchVars, filterVars, findVars,
                 applyVars, replyVars, issuesVars, acquireVars, chatVars,
                 commandVars, realtimeVars, promptVars, debounceVars,
                 cacheVars>>

batchFrame == <<gateVars, retryVars, loaderVars, filterVars, findVars,
                applyVars, replyVars, issuesVars, acquireVars, chatVars,
                commandVars, realtimeVars, promptVars, debounceVars,
                cacheVars>>

filterFrame == <<gateVars, retryVars, maxFileSize, loaderVars, batchVars,
                 findVars, applyVars, replyVars, issuesVars, acquireVars,
                 chatVars, commandVars, realtimeVars, promptVars,
                 debounceVars, cacheVars>>

findFrame == <<gateVars, retryVars, maxFileSize, loaderVars, batchVars,
               filterVars, applyVars, replyVars, issuesVars, acquireVars,
               chatVars, commandVars, realtimeVars, promptVars,
               debounceVars, cacheVars>>

applyFrame == <<gateVars, retryVars, maxFileSize, loaderVars, batchVars,
                filterVars, findVars, replyVars, issuesVars, acquireVars,
                chatVars, commandVars, realtimeVars, promptVars,
                debounceVars, cacheVars>>

replyFrame == <<gateVars, retryVars, maxFileSize, loaderVars, batchVars,
                filterVars, findVars, applyVars, issuesVars, acquireVars,
                chatVars, commandVars, realtimeVars, promptVars,
                debounceVars, cacheVars>>

issuesFrame == <<gateVars, retryVars, maxFileSize, loaderVars, batchVars,
                 filterVars, findVars, applyVars, replyVars, acquireVars,
                 chatVars, commandVars, realtimeVars, promptVars,
                 debounceVars, cacheVars>>

acquireFrame == <<gateVars, retryVars, maxFileSize, loaderVars, batchVars,
                  filterVars, findVars, applyVars, replyVars, issuesVars,
                  chatVars, commandVars, realtimeVars, promptVars,
                  debounceVars, cacheVars>>

chatFrame == <<gateVars, retryVars, maxFileSize, loaderVars, batchVars,
               filterVars, findVars, applyVars, replyVars, issuesVars,
               acquireVars, commandVars, realtimeVars, promptVars,
               debounceVars, cacheVars>>

commandFrame == <<gateVars, retryVars, maxFileSize, loaderVars, batchVars,
                  filterVars, findVars, applyVars, replyVars, issuesVars,
                  acquireVars, chatVars, realtimeVars, promptVars,
                  debounceVars, cacheVars>>

realtimeFrame == <<gateVars, retryVars, loaderVars, batchVars, filterVars,
                   findVars, applyVars, replyVars, issuesVars, acquireVars,
                   chatVars, commandVars, promptVars, debounceVars,
                   cacheVars>>

promptFrame == <<gateVars, retryVars, maxFileSize, loaderVars, batchVars,
                 filterVars, findVars, applyVars, replyVars, issuesVars,
                 acquireVars, chatVars, commandVars, realtimeVars,
                 debounceVars, cacheVars>>

debounceFrame == <<gateVars, retryVars, maxFileSize, loaderVars, batchVars,
                   filterVars, findVars, applyVars, replyVars, issuesVars,
                   acquireVars, chatVars, commandVars, realtimeVars,
                   promptVars, cacheVars>>

cacheFrame == <<gateVars, retryVars, maxFileSize, loaderVars, batchVars,
                filterVars, findVars, applyVars, replyVars, issuesVars,
                acquireVars, chatVars, commandVars, realtimeVars,
                promptVars, debounceVars>>

-----------------------------------------------------------------------------
(* Bounds *)

\* File contents are the numbers 0..MaxContent.
MaxContent == 2

Contents == 0..MaxContent

\* apiMaxRetries is drawn from 0..MaxRetries, apiRetryDelay from 1..MaxDelay.
MaxRetries == 4

MaxDelay == 2

\* A backend reply is a sequence of at most MaxReplyLen tokens.
MaxReplyLen == 1

\* A file of the Content Loader has at most MaxChars characters, and the
\* configured ceiling is drawn from 0..MaxCeiling bytes.
MaxChars == 3

MaxCeiling == 2

\* review-project enumerates at most MaxFiles files and runs at most
\* MaxBatchSize workers.
MaxFiles == 2

MaxBatchSize == 2

\* The Inclusion Filter is given paths of at most MaxPathLen segments and
\* pattern lists of at most MaxPatterns patterns.
MaxPathLen == 2

MaxPatterns == 2

\* findFiles is given at most MaxRoots workspace folders and a maxFiles drawn
\* from 0..MaxFileLimit.
MaxRoots == 2

MaxFileLimit == 2

\* At most MaxReviews reviews carry a suggestion, and the apply loop is
\* started at most MaxClicks times.
MaxReviews == 2

MaxClicks == 2

\* A backend reply handed to the parser and to the panels has at most
\* MaxReviewLen tokens.
MaxReviewLen == 5

\* Issue extraction: the largest line number a review names, the lines of a
\* review, the lines of the reviewed file.
MaxIssueLine == 3
MaxReviewLines == 2
MaxLineCount == 2

\* Credential acquisition: the calls of getLLMProvider followed, and the
\* backend switches made from its warning.
MaxAcquisitions == 2
MaxSwitches == 1

\* Chat: the largest messageHistoryLimit tried and the messages sent.
MaxHistoryLimit == 3
MaxTurns == 3

\* reviewGitDiff: the changed files getGitDiff returns.
MaxDiffs == 2

\* Real-time code access: the watcher events and the toggle commands
\* followed.
MaxEvents == 3
MaxToggles == 2

\* The request string: the words of the reviewed file's content.
MaxPromptContent == 2

-----------------------------------------------------------------------------
(* Response Sanitizer and Retry Dispatcher: the definitions *)

\* A reply is made of plain text and of markup tags.
Tokens == {"text", "<b>", "<script>"}

SeqsUpTo(S, n) == UNION {[1..k -> S] : k \in 0..n}

Replies == SeqsUpTo(Tokens, MaxReplyLen)

\* What makes provider.getResponse throw.
Failures == {"401", "ECONNREFUSED"}

\* The markup tags a reply may carry.
MarkupTags == {"<b>", "<script>"}

\* sanitizeHtml(text, {allowedTags}): plain text stays, a tag stays only when
\* it is on the allow-list.
sanitizeHtml(text, allowedTags) ==
    SelectSeq(text, LAMBDA t : t \notin MarkupTags \/ t \in allowedTags)

\* allowedTags: ["pre", "code", "b", "i"]
ReviewAllowedTags == {"<pre>", "<code>", "<b>", "<i>"}

NoResponse == <<"No response received from LLM">>

\* return sanitized || "No response received from LLM"
SanitizedOrDefault(response) ==
    LET sanitized == sanitizeHtml(response, ReviewAllowedTags)
    IN  IF sanitized = <<>> THEN NoResponse ELSE sanitized

\* for (...; attempt < config.apiMaxRetries; ...)
LoopContinues(n, maxRetries) == n < maxRetries

\* Mutant of HasRetriesLeft: the last retry is given up one attempt early.
HasRetriesLeftShort(n, maxRetries) == n < maxRetries - 2

\* if (attempt < config.apiMaxRetries - 1)
HasRetriesLeft(n, maxRetries) == n < maxRetries - 1

\* Mutant of RetryDelay: linear instead of exponential backoff.
RetryDelayLinear(baseDelay, n) == baseDelay * (n + 1)

\* config.apiRetryDelay * Math.pow(2, attempt)
RetryDelay(baseDelay, n) == baseDelay * 2^n

RetryIdle ==
    /\ apiMaxRetries = 0
    /\ apiRetryDelay = 0
    /\ attempt = 0
    /\ retryPc = "off"
    /\ outcomes = <<>>
    /\ sleeps = <<>>
    /\ retryResult = [kind |-> "none", text |-> <<>>]

RetryInit ==
    /\ apiMaxRetries \in 0..MaxRetries
    /\ apiRetryDelay \in 1..MaxDelay
    /\ attempt = 0
    /\ retryPc = "start"
    /\ outcomes = <<>>
    /\ sleeps = <<>>
    /\ retryResult = [kind |-> "none", text |-> <<>>]

\* The loop test; when it fails the loop is left and
\* throw handleError("Unexpected error in getLLMResponse") runs.
LoopTest(n) ==
    IF LoopContinues(n, apiMaxRetries)
       THEN /\ retryPc' = "call"
            /\ retryResult' = retryResult
       ELSE /\ retryPc' = "failed"
            /\ retryResult' = [kind |-> "error", text |-> <<"Unexpected error">>]

\* let attempt = 0 and the first loop test.
EnterLoop ==
    /\ UNCHANGED retryFrame
    /\ retryPc = "start"
    /\ LoopTest(attempt)
    /\ UNCHANGED <<apiMaxRetries, apiRetryDelay, attempt, outcomes, sleeps>>

\* Mutant of CallSucceeds: the return is missing, the loop goes on.
CallSucceedsNoReturn ==
    /\ UNCHANGED retryFrame
    /\ retryPc = "call"
    /\ \E response \in Replies :
          outcomes' = Append(outcomes, [ok |-> TRUE, text |-> response])
    /\ attempt' = attempt + 1
    /\ LoopTest(attempt + 1)
    /\ UNCHANGED <<apiMaxRetries, apiRetryDelay, sleeps>>

\* provider.getResponse resolves: sanitize and return.
CallSucceeds ==
    /\ UNCHANGED retryFrame
    /\ retryPc = "call"
    /\ \E response \in Replies :
          /\ outcomes' = Append(outcomes, [ok |-> TRUE, text |-> response])
          /\ retryResult' = [kind |-> "value",
                             text |-> SanitizedOrDefault(response)]
    /\ retryPc' = "returned"
    /\ UNCHANGED <<apiMaxRetries, apiRetryDelay, attempt, sleeps>>

\* provider.getResponse throws: log, then sleep when retries are left, else
\* showErrorMessage and throw handleError("... (All R retries failed)").
CallFails ==
    /\ UNCHANGED retryFrame
    /\ retryPc = "call"
    /\ \E failure \in Failures :
          outcomes' = Append(outcomes, [ok |-> FALSE, text |-> <<failure>>])
    /\ IF HasRetriesLeft(attempt, apiMaxRetries)
          THEN /\ sleeps' = Append(sleeps, RetryDelay(apiRetryDelay, attempt))
               /\ retryPc' = "sleep"
               /\ retryResult' = retryResult
          ELSE /\ sleeps' = sleeps
               /\ retryPc' = "failed"
               /\ retryResult' = [kind |-> "error",
                                  text |-> <<"All retries failed">>]
    /\ UNCHANGED <<apiMaxRetries, apiRetryDelay, attempt>>

\* The setTimeout of the backoff fires: attempt++ and the loop test.
Wake ==
    /\ UNCHANGED retryFrame
    /\ retryPc = "sleep"
    /\ attempt' = attempt + 1
    /\ LoopTest(attempt + 1)
    /\ UNCHANGED <<apiMaxRetries, apiRetryDelay, outcomes, sleeps>>

-----------------------------------------------------------------------------
(* File Mutation Gate *)

GateImpls == {"applyFileChanges", "applyFileContent"}

Answers == {"Apply", "Cancel", "undefined"}

GateIdle ==
    /\ gateImpl = "applyFileChanges"
    /\ autoApply = FALSE
    /\ newContent = 0
    /\ diskContent = 0
    /\ docText = 0
    /\ currentContent = -1
    /\ origDisk = 0
    /\ gatePc = "off"
    /\ apply = "none"
    /\ backups = <<>>
    /\ gateResult = "none"
    /\ gateEvents = <<>>
    /\ gateFailedAt = "none"

\* The gate is entered with any configuration, any proposed replacement, any
\* file on disk and any (possibly unsaved) document text.
GateInit ==
    /\ gateImpl \in GateImpls
    /\ autoApply \in BOOLEAN
    /\ newContent \in Contents
    /\ diskContent \in Contents
    /\ docText \in Contents
    /\ currentContent = -1
    /\ origDisk = diskContent
    /\ gatePc = "open"
    /\ apply = "none"
    /\ backups = <<>>
    /\ gateResult = "none"
    /\ gateEvents = <<>>
    /\ gateFailedAt = "none"

\* Mutant of NoChangesNeeded: the comparison inverted.
NoChangesNeededInverted(current, proposed) == current # proposed

\* document.getText() === newContent
NoChangesNeeded(current, proposed) == current = proposed

\* Mutant of NeedsConfirmation: the autoApplyChanges setting is not read.
NeedsConfirmationAlways(auto) == TRUE

\* if (!autoApply) { diff, confirmation }
NeedsConfirmation(auto) == ~auto

\* Mutant of Declined: only an explicit Cancel declines, a dismissal applies.
DeclinedOnlyOnCancel(answer) == answer = "Cancel"

\* if (apply !== "Apply") return false
Declined(answer) == answer # "Apply"

\* An exception inside the gate.  applyFileChanges catches it: log(msg,
\* "ERROR"), showErrorMessage(msg), return false.  applyFileContent has no
\* try: the exception leaves the gate and the calling handler's catch runs
\* handleError, which logs and shows it.
GateThrows(step) ==
    /\ gateFailedAt' = step
    /\ gatePc' = "done"
    /\ gateEvents' = gateEvents \o <<"logError", "showError">>
    /\ gateResult' = IF gateImpl = "applyFileChanges" THEN "false" ELSE "thrown"

\* openTextDocument, then the difference check and the branch on autoApply.
OpenAndCompare ==
    /\ UNCHANGED gateFrame
    /\ gatePc = "open"
    /\ \/ /\ GateThrows("open")
          /\ UNCHANGED currentContent
       \/ /\ currentContent' = docText
          /\ NoChangesNeeded(docText, newContent)
          /\ gateEvents' = Append(gateEvents, "logNoChanges")
          /\ gateResult' = "false"
          /\ gatePc' = "done"
          /\ UNCHANGED gateFailedAt
       \/ /\ currentContent' = docText
          /\ ~NoChangesNeeded(docText, newContent)
          /\ gatePc' = IF NeedsConfirmation(autoApply) THEN "diff" ELSE "backup"
          /\ UNCHANGED <<gateEvents, gateResult, gateFailedAt>>
    /\ UNCHANGED <<gateImpl, autoApply, newContent, diskContent, docText,
                   origDisk, apply, backups>>

\* fs.writeFile(tempFile, newContent) and the vscode.diff command.
ShowDiff ==
    /\ UNCHANGED gateFrame
    /\ gatePc = "diff"
    /\ \/ GateThrows("diff")
       \/ /\ gateEvents' = Append(gateEvents, "diff")
          /\ gatePc' = "confirm"
          /\ UNCHANGED <<gateResult, gateFailedAt>>
    /\ UNCHANGED <<gateImpl, autoApply, newContent, diskContent, docText,
                   currentContent, origDisk, apply, backups>>

\* showInformationMessage("Apply changes to ...?", "Apply", "Cancel"), the
\* temporary file's unlink (its failure is swallowed) and the test of the answer.
Confirm ==
    /\ UNCHANGED gateFrame
    /\ gatePc = "confirm"
    /\ \E answer \in Answers :
          /\ apply' = answer
          /\ gateEvents' = Append(gateEvents, "confirm")
          /\ IF Declined(answer)
                THEN gateResult' = "false" /\ gatePc' = "done"
                ELSE gateResult' = gateResult /\ gatePc' = "backup"
    /\ UNCHANGED <<gateImpl, autoApply, newContent, diskContent, docText,
                   currentContent, origDisk, backups, gateFailedAt>>

\* Mutant of BackupFile: a failed copy is swallowed and the gate goes on.
BackupFileSwallowed ==
    /\ UNCHANGED gateFrame
    /\ gatePc = "backup"
    /\ \/ /\ backups' = backups
          /\ gateEvents' = Append(gateEvents, "logError")
       \/ /\ backups' = Append(backups, diskContent)
          /\ gateEvents' = Append(gateEvents, "backup")
    /\ gatePc' = "edit"
    /\ UNCHANGED <<gateImpl, autoApply, newContent, diskContent, docText,
                   currentContent, origDisk, apply, gateResult, gateFailedAt>>

\* backupFile: workspace.fs.copy(uri, <path>.bak.<timestamp>).
BackupFile ==
    /\ UNCHANGED gateFrame
    /\ gatePc = "backup"
    /\ \/ /\ GateThrows("backup")
          /\ UNCHANGED backups
       \/ /\ backups' = Append(backups, diskContent)
          /\ gateEvents' = Append(gateEvents, "backup")
          /\ gatePc' = "edit"
          /\ UNCHANGED <<gateResult, gateFailedAt>>
    /\ UNCHANGED <<gateImpl, autoApply, newContent, diskContent, docText,
                   currentContent, origDisk, apply>>

\* workspace.applyEdit(edit) resolves true when the edit was applied to the
\* document and false when it was not; the gate does not read the value.
ApplyEdit ==
    /\ UNCHANGED gateFrame
    /\ gatePc = "edit"
    /\ \/ /\ GateThrows("edit")
          /\ UNCHANGED docText
       \/ /\ docText' = newContent
          /\ gatePc' = "save"
          /\ UNCHANGED <<gateEvents, gateResult, gateFailedAt>>
       \/ /\ docText' = docText
          /\ gatePc' = "save"
          /\ gateFailedAt' = "edit"
          /\ UNCHANGED <<gateEvents, gateResult>>
    /\ UNCHANGED <<gateImpl, autoApply, newContent, diskContent,
                   currentContent, origDisk, apply, backups>>

\* What follows an awaited document.save() that did not throw: log("Applied
\* changes to ..."), the "Changes applied" status message, return true.
ReportApplied(done) ==
    /\ gateEvents' = gateEvents \o done \o <<"logApplied", "showApplied">>
    /\ gateResult' = "true"
    /\ gatePc' = "done"

\* document.save() resolves true when the document was written to disk and
\* false when the save failed; the gate does not read the value.
Save ==
    /\ UNCHANGED gateFrame
    /\ gatePc = "save"
    /\ \/ /\ GateThrows("save")
          /\ UNCHANGED diskContent
       \/ /\ diskContent' = docText
          /\ ReportApplied(<<"write">>)
          /\ UNCHANGED gateFailedAt
       \/ /\ diskContent' = diskContent
          /\ ReportApplied(<<>>)
          /\ gateFailedAt' = "save"
    /\ UNCHANGED <<gateImpl, autoApply, newContent, docText, currentContent,
                   origDisk, apply, backups>>

GateNext ==
    \/ OpenAndCompare
    \/ ShowDiff
    \/ Confirm
    \/ BackupFile
    \/ ApplyEdit
    \/ Save


-----------------------------------------------------------------------------
(* Content Loader and the single-file review *)

LoaderImpls == {"extension.ts", "part_004", "part_002"}

\* A character takes one byte (ASCII) or three bytes (such as U+20AC) in UTF-8.
CharWidths == {1, 3}

Files == SeqsUpTo(CharWidths, MaxChars)

\* stat.size: the number of bytes of the file.
RECURSIVE StatSize(_)
StatSize(f) == IF f = <<>> THEN 0 ELSE Head(f) + StatSize(Tail(f))

\* new TextDecoder().decode(bytes): one UTF-16 unit per character of the file.
Decode(f) == [i \in 1..Len(f) |-> "c"]

\* if (stat.size > maxFileSize) throw
FileTooLarge(size, ceiling) == size > ceiling

\* part_002 reviewFile: if (content.length > maxFileSize) return the
\* "File too large to review" review
ContentTooLarge(text, ceiling) == Len(text) > ceiling

LoaderIdle ==
    /\ loaderImpl = "extension.ts"
    /\ file = <<>>
    /\ loaderPc = "off"
    /\ content = <<>>
    /\ loaderResult = "none"
    /\ sent = <<>>

LoaderInit ==
    /\ loaderImpl \in LoaderImpls
    /\ file \in Files
    /\ maxFileSize \in 0..MaxCeiling
    /\ loaderPc = IF loaderImpl = "part_002" THEN "read" ELSE "stat"
    /\ content = <<>>
    /\ loaderResult = "none"
    /\ sent = <<>>

\* readFileContent of extension.ts and of part_004: workspace.fs.stat and the
\* test of the size; every throw is logged and rethrown.
StatFile ==
    /\ UNCHANGED loaderFrame
    /\ loaderPc = "stat"
    /\ \/ /\ loaderResult' = "threwStatError"
          /\ loaderPc' = "done"
       \/ /\ FileTooLarge(StatSize(file), maxFileSize)
          /\ loaderResult' = "threwTooLarge"
          /\ loaderPc' = "done"
       \/ /\ ~FileTooLarge(StatSize(file), maxFileSize)
          /\ loaderResult' = loaderResult
          /\ loaderPc' = "read"
    /\ UNCHANGED <<maxFileSize, loaderImpl, file, content, sent>>

\* workspace.fs.readFile and the decoding.  A failed read is rethrown by
\* extension.ts and part_004; part_002 returns the error message as the
\* content, and its reviewFile returns it as the review.
ReadFile ==
    /\ UNCHANGED loaderFrame
    /\ loaderPc = "read"
    /\ \/ /\ loaderResult' = IF loaderImpl = "part_002"
                                THEN "readErrorReview" ELSE "threwReadError"
          /\ loaderPc' = "done"
          /\ content' = content
       \/ /\ content' = Decode(file)
          /\ loaderPc' = "review"
          /\ loaderResult' = loaderResult
    /\ UNCHANGED <<maxFileSize, loaderImpl, file, sent>>

\* reviewFile once the content is there: part_002 tests the length of the
\* content; then the prompt with the content goes to getLLMResponse.
ReviewLoaded ==
    /\ UNCHANGED loaderFrame
    /\ loaderPc = "review"
    /\ IF loaderImpl = "part_002" /\ ContentTooLarge(content, maxFileSize)
          THEN /\ loaderResult' = "tooLargeReview"
               /\ sent' = sent
          ELSE /\ loaderResult' = "reviewed"
               /\ sent' = Append(sent, content)
    /\ loaderPc' = "done"
    /\ UNCHANGED <<maxFileSize, loaderImpl, file, content>>

-----------------------------------------------------------------------------
(* review-project: processFilesConcurrently over reviewFile, and the       *)
(* reviewProject command around it (extension.ts and part_004)             *)

BatchImpls == {"extension.ts", "part_004"}

Workers == 1..MaxBatchSize

\* The sizes a file of the batch may have: empty, at the ceiling, above it.
BatchSizes == {0, MaxCeiling, MaxCeiling + 1}

Min(a, b) == IF a < b THEN a ELSE b

\* What the user has seen of the batch before its first file has ended: the
\* panel "Review running...", the notification "Found n files to review".
NoProgress == [processed |-> 0, errors |-> 0]

BatchIdle ==
    /\ batchImpl = "none"
    /\ fileUris = <<>>
    /\ reviewBatchSize = 0
    /\ batchPc = "off"
    /\ queue = <<>>
    /\ workers = [w \in Workers |-> [pc |-> "unused", uri |-> 0]]
    /\ results = <<>>
    /\ backendCalls = <<>>
    /\ errorLog = <<>>
    /\ processed = 0
    /\ errors = 0
    /\ cancelRequested = FALSE
    /\ panelHtml = "none"
    /\ summary = <<>>
    /\ shownProgress = NoProgress
    /\ errorTrail = <<>>

\* The command has created its panel ("Review running...") and findFiles has
\* filled fileUris.
BatchInit ==
    /\ batchImpl \in BatchImpls
    /\ fileUris \in SeqsUpTo(BatchSizes, MaxFiles)
    /\ reviewBatchSize \in 1..MaxBatchSize
    /\ maxFileSize = MaxCeiling
    /\ batchPc = "start"
    /\ queue = <<>>
    /\ workers = [w \in Workers |-> [pc |-> "unused", uri |-> 0]]
    /\ results = <<>>
    /\ backendCalls = [u \in 1..Len(fileUris) |-> 0]
    /\ errorLog = <<>>
    /\ processed = 0
    /\ errors = 0
    /\ cancelRequested = FALSE
    /\ panelHtml = "running"
    /\ summary = <<>>
    /\ shownProgress = NoProgress
    /\ errorTrail = <<>>

\* A variant that starts one worker per file.
WorkerCountPerFile(batchSize, n) == n

\* Math.min(batchSize, uris.length)
WorkerCount(batchSize, n) == Min(batchSize, n)

\* Mutant of NoFilesFound: the command does not test for an empty enumeration.
NoFilesFoundIgnored(uris) == FALSE

\* if (fileUris.length === 0)
NoFilesFound(uris) == Len(uris) = 0

\* reviewProjectCommand after the enumeration: the "No files found" return,
\* or processFilesConcurrently up to its Promise.all: queue = [...uris], and
\* each runWorker() runs to its first await, so worker w has shifted file w
\* off the queue and waits in readFileContent.
StartBatch ==
    /\ UNCHANGED batchFrame
    /\ batchPc = "start"
    /\ IF NoFilesFound(fileUris)
          THEN /\ batchPc' = "noFiles"
               /\ panelHtml' = "noFiles"
               /\ UNCHANGED <<queue, workers>>
          ELSE LET n == Len(fileUris)
                   k == WorkerCount(reviewBatchSize, n)
               IN  /\ batchPc' = "running"
                   /\ queue' = [i \in 1..(n - k) |-> k + i]
                   /\ workers' = [w \in Workers |->
                                    IF w <= k THEN [pc |-> "read", uri |-> w]
                                              ELSE [pc |-> "unused", uri |-> 0]]
                   /\ UNCHANGED panelHtml
    /\ UNCHANGED <<maxFileSize, errorTrail, batchImpl, fileUris,
                   reviewBatchSize, results,
                   backendCalls, errorLog, processed, errors, cancelRequested,
                   summary, shownProgress>>

\* The user presses Cancel on the progress notification of withProgress
\* ({cancellable: true}): token.isCancellationRequested becomes true.
CancelBatch ==
    /\ UNCHANGED batchFrame
    /\ batchPc = "running"
    /\ ~cancelRequested
    /\ cancelRequested' = TRUE
    /\ UNCHANGED <<maxFileSize, errorTrail, batchImpl, fileUris,
                   reviewBatchSize, batchPc,
                   queue, workers, results, backendCalls, errorLog, processed,
                   errors, panelHtml, summary, shownProgress>>

\* while (queue.length > 0) { const uri = queue.shift()!; processor(uri) ...
\* as run by worker w when the processing of its file has ended.  The loop
\* tests the queue only: processFilesConcurrently does not receive the
\* cancellation token.
TakeNext(w) ==
    IF Len(queue) > 0
       THEN /\ workers' = [workers EXCEPT ![w] = [pc |-> "read", uri |-> Head(queue)]]
            /\ queue' = Tail(queue)
       ELSE /\ workers' = [workers EXCEPT ![w] = [pc |-> "done", uri |-> 0]]
            /\ queue' = queue

\* Mutant of OnFailure: the failure of a file ends its worker.
OnFailureAbort(w) ==
    /\ workers' = [workers EXCEPT ![w] = [pc |-> "done", uri |-> 0]]
    /\ queue' = queue
    /\ errorLog' = Append(errorLog, workers[w].uri)
    /\ errors' = IF batchImpl = "part_004" THEN errors + 1 ELSE errors
    /\ UNCHANGED <<results, processed, panelHtml, shownProgress>>

\* The catch of the worker's loop: log "Error processing ..." (part_004:
\* errors++ before it), nothing is pushed, and the loop goes on.
OnFailure(w) ==
    /\ errorLog' = Append(errorLog, workers[w].uri)
    /\ errors' = IF batchImpl = "part_004" THEN errors + 1 ELSE errors
    /\ TakeNext(w)
    /\ UNCHANGED <<results, processed, panelHtml, shownProgress>>

\* results.push(result) (part_004: processed++ and the progress line in the
\* panel after it), and the loop goes on.
OnSuccess(w) ==
    /\ results' = Append(results, [uri |-> workers[w].uri, review |-> "llm"])
    /\ processed' = IF batchImpl = "part_004" THEN processed + 1 ELSE processed
    /\ panelHtml' = IF batchImpl = "part_004" THEN "progress" ELSE panelHtml
    /\ shownProgress' = IF batchImpl = "part_004"
                            THEN [processed |-> processed + 1,
                                  errors |-> errors]
                            ELSE shownProgress
    /\ TakeNext(w)
    /\ UNCHANGED <<errorLog, errors>>

\* reviewFile's await readFileContent(uri, config).  A file above the ceiling
\* and a failed stat or read throw; reviewFile lets the error through
\* (extension.ts logs and rethrows) to the catch of the worker's loop.
WorkerRead(w) ==
    /\ UNCHANGED batchFrame
    /\ batchPc = "running"
    /\ workers[w].pc = "read"
    /\ \/ /\ FileTooLarge(fileUris[workers[w].uri], maxFileSize)
          /\ OnFailure(w)
       \/ OnFailure(w)
       \/ /\ ~FileTooLarge(fileUris[workers[w].uri], maxFileSize)
          /\ workers' = [workers EXCEPT ![w].pc = "llm"]
          /\ UNCHANGED <<queue, errorLog, errors, results, processed,
                         panelHtml, shownProgress>>
    /\ UNCHANGED <<maxFileSize, errorTrail, batchImpl, fileUris,
                   reviewBatchSize, batchPc,
                   backendCalls, cancelRequested, summary>>

\* reviewFile's await getLLMResponse(...).  Its reply becomes the FileReview
\* that the worker pushes; its failure is thrown to the catch of the loop.
WorkerReview(w) ==
    /\ UNCHANGED batchFrame
    /\ batchPc = "running"
    /\ workers[w].pc = "llm"
    /\ backendCalls' = [backendCalls EXCEPT ![workers[w].uri] = @ + 1]
    /\ \/ OnSuccess(w)
       \/ OnFailure(w)
    /\ UNCHANGED <<maxFileSize, errorTrail, batchImpl, fileUris,
                   reviewBatchSize, batchPc,
                   cancelRequested, summary>>

\* Mutant of AllWorkersEnded: Promise.all is not awaited.
AllWorkersEndedNotAwaited == TRUE

\* await Promise.all(workers)
AllWorkersEnded == \A w \in Workers : workers[w].pc \in {"done", "unused"}

\* processFilesConcurrently returns and the command goes on: with the token
\* cancelled the panel becomes "Project review cancelled." and the command
\* returns; otherwise the summary of the reviews is rendered in the panel.
FinishBatch ==
    /\ UNCHANGED batchFrame
    /\ batchPc = "running"
    /\ AllWorkersEnded
    /\ IF cancelRequested
          THEN /\ batchPc' = "cancelled"
               /\ panelHtml' = "cancelled"
               /\ summary' = <<>>
          ELSE /\ batchPc' = "done"
               /\ panelHtml' = "summary"
               /\ summary' = results
    /\ UNCHANGED <<maxFileSize, errorTrail, batchImpl, fileUris,
                   reviewBatchSize, queue,
                   workers, results, backendCalls, errorLog, processed, errors,
                   cancelRequested, shownProgress>>

------------------------------------------------------------------

\* The statements of the catch of the reviewProject command, in their order.
\* extension.ts: log(msg, "ERROR"); panel.webview.html = ...; showErrorMessage.
\* part_004: panel.webview.html = ...; handleError(msg), which logs and then
\* shows the error message.
CatchStatements(impl) ==
    IF impl = "extension.ts" THEN <<"log", "panel", "notification">>
                             ELSE <<"panel", "log", "notification">>

\* An exception reaches the catch of the command after files were found and
\* before the workers start: withProgress rejects, or (part_004)
\* getLLMProvider throws.
CommandThrows ==
    /\ UNCHANGED batchFrame
    /\ batchPc = "start"
    /\ Len(fileUris) > 0
    /\ batchPc' = "catch"
    /\ UNCHANGED <<maxFileSize, errorTrail, batchImpl, fileUris,
                   reviewBatchSize, queue, workers, results, backendCalls,
                   errorLog, processed, errors, cancelRequested, panelHtml,
                   summary, shownProgress>>

\* The next statement of the catch runs.
CatchStep ==
    /\ UNCHANGED batchFrame
    /\ batchPc = "catch"
    /\ LET next == CatchStatements(batchImpl)[Len(errorTrail) + 1]
       IN  /\ errorTrail' = Append(errorTrail, next)
           /\ panelHtml' = IF next = "panel" THEN "error" ELSE panelHtml
    /\ batchPc' = IF Len(errorTrail) + 1 = Len(CatchStatements(batchImpl))
                     THEN "failed" ELSE "catch"
    /\ UNCHANGED <<maxFileSize, batchImpl, fileUris, reviewBatchSize, queue,
                   workers, results, backendCalls, errorLog, processed, errors,
                   cancelRequested, summary, shownProgress>>

-----------------------------------------------------------------------------
(* Inclusion Filter: shouldIncludeFile over minimatch *)

\* A relative path is a sequence of at most MaxPathLen segments, the last one
\* the file's name.
Segments == {"a.ts", "b.log", "node_modules"}

Paths == SeqsUpTo(Segments, MaxPathLen) \ {<<>>}

\* The glob patterns a configured list is made of: "**/*.ts", "*",
\* "**/node_modules/**" and "**/*.log", split at the slashes.
PatternPool ==
    { <<"**", "*.ts">>, <<"*">>, <<"**", "node_modules", "**">>,
      <<"**", "*.log">> }

PatternLists == SeqsUpTo(PatternPool, MaxPatterns)

\* minimatch on one path segment: a literal, "*" or "*.ext".
SegmentMatches(segment, part) ==
    CASE part = "*"     -> TRUE
      [] part = "*.ts"  -> segment = "a.ts"
      [] part = "*.log" -> segment = "b.log"
      [] OTHER          -> segment = part

\* minimatch(relativePath, pattern): the parts are matched segment by
\* segment; "**" stands for any number of segments, and at the end of the
\* pattern it swallows the rest of a path that has a rest.
RECURSIVE minimatch(_, _)
minimatch(path, pattern) ==
    IF pattern = <<>>
       THEN path = <<>>
       ELSE IF Head(pattern) = "**"
               THEN IF Len(pattern) = 1
                       THEN path # <<>>
                       ELSE \E k \in 0..Len(path) :
                               minimatch(SubSeq(path, k + 1, Len(path)),
                                         Tail(pattern))
               ELSE /\ path # <<>>
                    /\ SegmentMatches(Head(path), Head(pattern))
                    /\ minimatch(Tail(path), Tail(pattern))

\* patterns.some((pattern) => minimatch(relativePath, pattern))
RECURSIVE some(_, _)
some(patterns, path) ==
    IF patterns = <<>>
       THEN FALSE
       ELSE IF minimatch(path, Head(patterns))
               THEN TRUE
               ELSE some(Tail(patterns), path)

\* Mutant of shouldIncludeFile: the exclude list is not consulted.
shouldIncludeFileNoExclude(path, includes, excludes) ==
    some(includes, path)

\* const included = includePatterns.some(...);
\* const excluded = excludePatterns.some(...);
\* return included && !excluded;
shouldIncludeFile(path, includes, excludes) ==
    LET included == some(includes, path)
        excluded == some(excludes, path)
    IN  included /\ ~excluded

FilterIdle ==
    /\ relativePath = <<>>
    /\ includePatterns = <<>>
    /\ excludePatterns = <<>>
    /\ filterPc = "off"
    /\ filterResult = "none"
    /\ filterLog = <<>>

FilterInit ==
    /\ relativePath \in Paths
    /\ includePatterns \in PatternLists
    /\ excludePatterns \in PatternLists
    /\ filterPc = "call"
    /\ filterResult = "none"
    /\ filterLog = <<>>

\* One call of shouldIncludeFile(uri, config).  With patterns that are
\* strings minimatch does not throw, so the catch of extension.ts:80-88 (and
\* its log line) is not entered; the call reads the configuration and the
\* path and writes nothing.
ShouldIncludeFile ==
    /\ UNCHANGED filterFrame
    /\ filterPc = "call"
    /\ filterResult' =
          shouldIncludeFile(relativePath, includePatterns, excludePatterns)
    /\ filterPc' = "returned"
    /\ UNCHANGED <<relativePath, includePatterns, excludePatterns, filterLog>>

-----------------------------------------------------------------------------
(* File enumeration: findFiles (extension.ts and part_004) *)

FindImpls == {"extension.ts", "part_004"}

\* What readDirectory lists: a file that shouldIncludeFile accepts, a file it
\* rejects, a directory with its own entries, a directory whose
\* readDirectory throws.
IncludedFile ==
    [kind |-> "file", included |-> TRUE, readable |-> TRUE, entries |-> <<>>]

SkippedFile ==
    [kind |-> "file", included |-> FALSE, readable |-> TRUE, entries |-> <<>>]

Dir(es) ==
    [kind |-> "dir", included |-> FALSE, readable |-> TRUE, entries |-> es]

UnreadableDir ==
    [kind |-> "dir", included |-> FALSE, readable |-> FALSE, entries |-> <<>>]

\* The directory trees the enumeration is run on, each given by the entries
\* of its top directory in readDirectory order.
TreePool ==
    { <<>>,
      <<IncludedFile, IncludedFile>>,
      <<Dir(<<IncludedFile>>), IncludedFile>>,
      <<IncludedFile, Dir(<<IncludedFile, IncludedFile>>), SkippedFile>>,
      <<Dir(<<IncludedFile>>),
        Dir(<<Dir(<<IncludedFile, IncludedFile>>), IncludedFile>>)>>,
      <<UnreadableDir, IncludedFile>> }

\* The directory at a path; a path is the sequence of the entry numbers that
\* lead to it from the top directory.
RECURSIVE DirAt(_, _)
DirAt(top, path) ==
    IF path = <<>>
       THEN Dir(top)
       ELSE LET d == DirAt(top, SubSeq(path, 1, Len(path) - 1))
            IN  d.entries[path[Len(path)]]

\* The paths of all the directories of a tree, the top directory included.
RECURSIVE DirPathsOf(_, _)
DirPathsOf(es, prefix) ==
    {prefix} \cup
    UNION { DirPathsOf(es[i].entries, Append(prefix, i)) :
               i \in {j \in 1..Len(es) : es[j].kind = "dir"} }

\* extension.ts.  The generator keeps one fileCount per invocation; a
\* sub-directory is walked by a new invocation, "yield* findFiles([{uri}])",
\* whose fileCount starts at 0 again and whose yields are not added to the
\* caller's.  Each operator gives what was yielded (out), fileCount (count)
\* and whether the invocation returned at the limit (ret).
RECURSIVE findFilesOfExtension(_, _, _)
RECURSIVE ExtensionEntries(_, _, _, _, _)
RECURSIVE ExtensionFolders(_, _, _, _)

\* for (const [name, type] of entries) { ... } from entry i on
ExtensionEntries(top, dir, i, count, max) ==
    LET es == DirAt(top, dir).entries
    IN  IF i > Len(es)
           THEN [out |-> <<>>, count |-> count, ret |-> FALSE]
           ELSE IF count >= max
                   THEN [out |-> <<>>, count |-> count, ret |-> TRUE]
                   ELSE IF es[i].kind = "file" /\ es[i].included
                           THEN LET r == ExtensionEntries(top, dir, i + 1,
                                                          count + 1, max)
                                IN  [r EXCEPT !.out = <<Append(dir, i)>> \o @]
                           ELSE IF es[i].kind = "dir"
                                   THEN LET sub == findFilesOfExtension(
                                                      top, <<Append(dir, i)>>,
                                                      max)
                                            r == ExtensionEntries(
                                                    top, dir, i + 1, count, max)
                                        IN  [r EXCEPT !.out = sub \o @]
                                   ELSE ExtensionEntries(top, dir, i + 1,
                                                         count, max)

\* for (const folder of workspaceFolders) { try { ... } catch { log } }
ExtensionFolders(top, folders, count, max) ==
    IF folders = <<>>
       THEN <<>>
       ELSE IF ~DirAt(top, Head(folders)).readable
               THEN ExtensionFolders(top, Tail(folders), count, max)
               ELSE LET r == ExtensionEntries(top, Head(folders), 1, count, max)
                    IN  IF r.ret
                           THEN r.out
                           ELSE r.out \o ExtensionFolders(top, Tail(folders),
                                                          r.count, max)

findFilesOfExtension(top, folders, max) ==
    ExtensionFolders(top, folders, 0, max)

\* part_004.  One generator walks every folder with a stack of directories
\* and a single fileCount.
RECURSIVE Part004Entries(_, _, _, _, _, _)
RECURSIVE Part004Stack(_, _, _, _)
RECURSIVE Part004Folders(_, _, _, _)

\* for (const [name, type] of await readDirectory(dir)) { ... } from entry i
\* on; gives the stack as the loop leaves it.
Part004Entries(top, dir, i, stack, count, max) ==
    LET es == DirAt(top, dir).entries
    IN  IF i > Len(es)
           THEN [out |-> <<>>, count |-> count, ret |-> FALSE, stack |-> stack]
           ELSE IF es[i].kind = "file" /\ es[i].included
                   THEN IF count + 1 > max
                           THEN [out |-> <<>>, count |-> count + 1,
                                 ret |-> TRUE, stack |-> stack]
                           ELSE LET r == Part004Entries(top, dir, i + 1, stack,
                                                        count + 1, max)
                                IN  [r EXCEPT !.out = <<Append(dir, i)>> \o @]
                   ELSE IF es[i].kind = "dir"
                           THEN Part004Entries(top, dir, i + 1,
                                               Append(stack, Append(dir, i)),
                                               count, max)
                           ELSE Part004Entries(top, dir, i + 1, stack, count,
                                               max)

\* while (stack.length && fileCount < config.maxFiles) { dir = stack.pop() ...
Part004Stack(top, stack, count, max) ==
    IF stack = <<>> \/ ~(count < max)
       THEN [out |-> <<>>, count |-> count, ret |-> FALSE]
       ELSE LET dir  == stack[Len(stack)]
                rest == SubSeq(stack, 1, Len(stack) - 1)
            IN  IF ~DirAt(top, dir).readable
                   THEN Part004Stack(top, rest, count, max)
                   ELSE LET r == Part004Entries(top, dir, 1, rest, count, max)
                        IN  IF r.ret
                               THEN [out |-> r.out, count |-> r.count,
                                     ret |-> TRUE]
                               ELSE LET s == Part004Stack(top, r.stack,
                                                          r.count, max)
                                    IN  [s EXCEPT !.out = r.out \o @]

\* for (const folder of folders) { const stack = [folder.uri]; ... }
Part004Folders(top, folders, count, max) ==
    IF folders = <<>>
       THEN <<>>
       ELSE LET r == Part004Stack(top, <<Head(folders)>>, count, max)
            IN  IF r.ret
                   THEN r.out
                   ELSE r.out \o Part004Folders(top, Tail(folders), r.count,
                                                max)

findFilesOfPart004(top, folders, max) ==
    Part004Folders(top, folders, 0, max)

findFiles(impl, top, folders, max) ==
    IF impl = "extension.ts"
       THEN findFilesOfExtension(top, folders, max)
       ELSE findFilesOfPart004(top, folders, max)

FindIdle ==
    /\ findImpl = "none"
    /\ tree = <<>>
    /\ workspaceFolders = <<>>
    /\ maxFiles = 0
    /\ findPc = "off"
    /\ found = <<>>

\* The workspace folders are directories of the tree; a folder may lie inside
\* another one.
FindInit ==
    /\ findImpl \in FindImpls
    /\ tree \in TreePool
    /\ workspaceFolders \in SeqsUpTo(DirPathsOf(tree, <<>>), MaxRoots)
    /\ maxFiles \in 0..MaxFileLimit
    /\ findPc = "enumerate"
    /\ found = <<>>

\* for await (const uri of findFiles(workspaceFolders, config))
\*     fileUris.push(uri);
EnumerateFiles ==
    /\ UNCHANGED findFrame
    /\ findPc = "enumerate"
    /\ found' = findFiles(findImpl, tree, workspaceFolders, maxFiles)
    /\ findPc' = "enumerated"
    /\ UNCHANGED <<findImpl, tree, workspaceFolders, maxFiles>>

-----------------------------------------------------------------------------
(* Applying the suggestions of a finished review-project: the auto-apply   *)
(* loop of extension.ts and the applyAll handler of part_004               *)

ApplyImpls == {"extension.ts", "part_004"}

\* The runs of the apply loop that may exist: extension.ts runs the loop once
\* per command, part_004 once per applyAll message of the panel.
Runs == 1..MaxClicks

ReviewPaths == 1..MaxReviews

\* The reviews that carry suggestedChanges, by the path of their file; every
\* path occurs once.
ReviewLists ==
    {r \in SeqsUpTo(ReviewPaths, MaxReviews) :
        \A i, j \in 1..Len(r) : i # j => r[i] # r[j]}

ApplyIdle ==
    /\ applyImpl = "none"
    /\ reviews = <<>>
    /\ runs = [h \in Runs |-> [pc |-> "unused", idx |-> 0]]
    /\ mutations = <<>>
    /\ applyErrors = <<>>

\* The summary is in the panel; no loop runs yet.
ApplyInit ==
    /\ applyImpl \in ApplyImpls
    /\ reviews \in ReviewLists
    /\ runs = [h \in Runs |-> [pc |-> "idle", idx |-> 0]]
    /\ mutations = <<>>
    /\ applyErrors = <<>>

\* for (const review of reviews) { if (review.suggestedChanges) await
\* apply...(review.uri, ...) }: the run goes to the review after idx, or ends.
NextReview(h, idx) ==
    IF idx < Len(reviews)
       THEN runs' = [runs EXCEPT ![h] = [pc |-> "open", idx |-> idx + 1]]
       ELSE runs' = [runs EXCEPT ![h] = [pc |-> "done", idx |-> 0]]

\* extension.ts:749-760: with autoApplyChanges the command itself runs the
\* loop, once, inside the withProgress callback.
StartAutoApply ==
    /\ UNCHANGED applyFrame
    /\ applyImpl = "extension.ts"
    /\ \A h \in Runs : runs[h].pc = "idle"
    /\ NextReview(1, 0)
    /\ UNCHANGED <<applyImpl, reviews, mutations, applyErrors>>

\* part_004:1513-1521: the panel posts {command: "applyAll"} each time its
\* button is pressed, and every message starts the async handler anew; a
\* handler that is waiting does not hold back the next one.
ReceiveApplyAll(h) ==
    /\ UNCHANGED applyFrame
    /\ applyImpl = "part_004"
    /\ runs[h].pc = "idle"
    /\ NextReview(h, 0)
    /\ UNCHANGED <<applyImpl, reviews, mutations, applyErrors>>

\* A step of the gate failed.  applyFileChanges (extension.ts:188-194)
\* catches it, reports it and returns false: the loop goes on.
\* applyFileContent (part_004:329-356) has no catch: the rejection leaves
\* the for loop of the applyAll handler for the catch around it
\* (part_004:1539-1541), which reports it.
AfterGateFailure(h, step) ==
    /\ applyErrors' = Append(applyErrors,
                             [run |-> h, path |-> reviews[runs[h].idx],
                              step |-> step])
    /\ IF applyImpl = "extension.ts"
          THEN NextReview(h, runs[h].idx)
          ELSE runs' = [runs EXCEPT ![h].pc = "failed"]

\* The gate up to its backup: openTextDocument, the comparison, the diff and
\* the prompt.  It ends there (identical content, declined), fails there, or
\* goes on to the backup.
GateOpens(h) ==
    /\ UNCHANGED applyFrame
    /\ runs[h].pc = "open"
    /\ \/ NextReview(h, runs[h].idx) /\ UNCHANGED applyErrors
       \/ runs' = [runs EXCEPT ![h].pc = "backup"] /\ UNCHANGED applyErrors
       \/ AfterGateFailure(h, "open")
    /\ UNCHANGED <<applyImpl, reviews, mutations>>

\* await backupFile(uri)
GateBacksUp(h) ==
    /\ UNCHANGED applyFrame
    /\ runs[h].pc = "backup"
    /\ \/ /\ runs' = [runs EXCEPT ![h].pc = "write"]
          /\ mutations' = Append(mutations,
                                 [run |-> h, path |-> reviews[runs[h].idx],
                                  step |-> "backup"])
          /\ UNCHANGED applyErrors
       \/ /\ AfterGateFailure(h, "backup")
          /\ UNCHANGED mutations
    /\ UNCHANGED <<applyImpl, reviews>>

\* await applyEdit(edit); await document.save(); the gate returns.
GateWrites(h) ==
    /\ UNCHANGED applyFrame
    /\ runs[h].pc = "write"
    /\ \/ /\ mutations' = Append(mutations,
                                 [run |-> h, path |-> reviews[runs[h].idx],
                                  step |-> "write"])
          /\ NextReview(h, runs[h].idx)
          /\ UNCHANGED applyErrors
       \/ /\ AfterGateFailure(h, "write")
          /\ UNCHANGED mutations
    /\ UNCHANGED <<applyImpl, reviews>>

-----------------------------------------------------------------------------
(* From the backend reply to the panel, the chat and the Review Parser:    *)
(* getLLMResponse, reviewFile and the commands that show a reply           *)

ReplyImpls == {"extension.ts", "part_004"}

\* The commands that obtain a reply: the chat (the reply is posted to the
\* chat webview), review-file and review-project (reviewFile parses the reply
\* and the review is rendered in a panel), review-selection and explain (the
\* reply is rendered in a panel).
CommandPaths == {"chat", "reviewFile", "panel"}

\* What a backend may answer: fences, words, white space and markup.
\* The fence is the run of three backticks.
Fence == "fence"

WhiteSpace == " "

ReplyTokens == {Fence, "foo", WhiteSpace, "<script>", "<b>"}

BackendReplies == SeqsUpTo(ReplyTokens, MaxReviewLen)

\* allowedTags of the sanitizeHtml call in getLLMResponse: [] in
\* extension.ts, ["pre", "code", "b", "i"] in part_004.
ResponseAllowedTags(impl) ==
    IF impl = "extension.ts" THEN {} ELSE ReviewAllowedTags

\* Mutant of SanitizedResponse: getLLMResponse returns the reply as received.
UnsanitizedResponse(impl, response) ==
    IF response = <<>> THEN NoResponse ELSE response

\* const sanitized = sanitizeHtml(response, {allowedTags: ...});
\* return sanitized || "No response received from LLM";
SanitizedResponse(impl, response) ==
    LET sanitized == sanitizeHtml(response, ResponseAllowedTags(impl))
    IN  IF sanitized = <<>> THEN NoResponse ELSE sanitized

\* The place of the first fence of a text from place i on, 0 when there is
\* none.
RECURSIVE NextFence(_, _)
NextFence(text, i) ==
    IF i > Len(text)
       THEN 0
       ELSE IF text[i] = Fence THEN i ELSE NextFence(text, i + 1)

\* The place of the last fence of a text at or before place i, 0 when there
\* is none.
RECURSIVE LastFence(_, _)
LastFence(text, i) ==
    IF i < 1
       THEN 0
       ELSE IF text[i] = Fence THEN i ELSE LastFence(text, i - 1)

\* Mutant of ClosingFence: the pattern is greedy and runs to the last fence.
ClosingFenceGreedy(text, open) ==
    LET last == LastFence(text, Len(text))
    IN  IF last > open THEN last ELSE 0

\* review.match(/fence[\s\S]*?fence/): the pattern is lazy, the match runs
\* from the first fence to the nearest fence after it.
ClosingFence(text, open) == NextFence(text, open + 1)

\* String.prototype.trim
RECURSIVE TrimStart(_)
TrimStart(text) ==
    IF text # <<>> /\ Head(text) = WhiteSpace
       THEN TrimStart(Tail(text))
       ELSE text

RECURSIVE TrimEnd(_)
TrimEnd(text) ==
    IF text # <<>> /\ text[Len(text)] = WhiteSpace
       THEN TrimEnd(SubSeq(text, 1, Len(text) - 1))
       ELSE text

Trim(text) == TrimEnd(TrimStart(text))

\* changeMatch[0].replace(/fence/g, "")
StripFences(text) == SelectSeq(text, LAMBDA t : t # Fence)

\* let suggestedChanges: string | undefined;
\* const changeMatch = review.match(/fence[\s\S]*?fence/);
\* if (changeMatch)
\*     suggestedChanges = changeMatch[0].replace(/fence/g, "").trim();
ParseSuggestedChanges(text) ==
    LET open  == NextFence(text, 1)
        close == IF open = 0 THEN 0 ELSE ClosingFence(text, open)
    IN  IF close = 0
           THEN [present |-> FALSE, text |-> <<>>]
           ELSE [present |-> TRUE,
                 text |-> Trim(StripFences(SubSeq(text, open, close)))]

ReplyIdle ==
    /\ replyImpl = "none"
    /\ commandPath = "none"
    /\ rawReply = <<>>
    /\ replyPc = "off"
    /\ review = <<>>
    /\ suggestedChanges = [present |-> FALSE, text |-> <<>>]
    /\ parsed = <<>>
    /\ displayed = <<>>

\* The request has been posted and the backend has answered.
ReplyInit ==
    /\ replyImpl \in ReplyImpls
    /\ commandPath \in CommandPaths
    /\ rawReply \in BackendReplies
    /\ replyPc = "call"
    /\ review = <<>>
    /\ suggestedChanges = [present |-> FALSE, text |-> <<>>]
    /\ parsed = <<>>
    /\ displayed = <<>>

\* getLLMResponse returns to the command.
ReceiveResponse ==
    /\ UNCHANGED replyFrame
    /\ replyPc = "call"
    /\ review' = SanitizedResponse(replyImpl, rawReply)
    /\ replyPc' = "received"
    /\ UNCHANGED <<replyImpl, commandPath, rawReply, suggestedChanges, parsed,
                   displayed>>

\* reviewFile after getLLMResponse: the parser matches the review.
ParseReview ==
    /\ UNCHANGED replyFrame
    /\ replyPc = "received"
    /\ commandPath = "reviewFile"
    /\ parsed' = Append(parsed, review)
    /\ suggestedChanges' = ParseSuggestedChanges(review)
    /\ replyPc' = "parsed"
    /\ UNCHANGED <<replyImpl, commandPath, rawReply, review, displayed>>

\* panel.webview.postMessage({command: "receiveMessage", text: response})
PostToChat ==
    /\ UNCHANGED replyFrame
    /\ replyPc = "received"
    /\ commandPath = "chat"
    /\ displayed' = Append(displayed, [sink |-> "chat", text |-> review])
    /\ replyPc' = "done"
    /\ UNCHANGED <<replyImpl, commandPath, rawReply, review, suggestedChanges,
                   parsed>>

\* panel.webview.html = getReviewWebviewHtml(content): the review and, when
\* there is one, the suggestion, which getReviewWebviewHtml passes through
\* sanitizeHtml with allowedTags b, i, code, pre once more.
RenderPanel ==
    /\ UNCHANGED replyFrame
    /\ \/ replyPc = "received" /\ commandPath = "panel"
       \/ replyPc = "parsed"
    /\ LET shown == IF suggestedChanges.present
                       THEN review \o suggestedChanges.text
                       ELSE review
       IN  displayed' = Append(displayed,
                               [sink |-> "panel",
                                text |-> sanitizeHtml(shown, ReviewAllowedTags)])
    /\ replyPc' = "done"
    /\ UNCHANGED <<replyImpl, commandPath, rawReply, review, suggestedChanges,
                   parsed>>

-----------------------------------------------------------------------------
(* Issue extraction: the issue loop of reviewFile (part_004), the          *)
(* diagnostics reviewFile sets and the ones handleFileEvent sets after it  *)

IssueCallers == {"reviewFile command", "handleFileEvent"}

\* A line of the review, by its shape: "Line N: S severity - M" (issue),
\* "Line N - M" (noSeverity: the second group of the pattern does not
\* match) or running text.  digits is what the first group captures.
LineNumbers == 0..MaxIssueLine

ReviewLines ==
    [form : {"issue", "noSeverity"}, digits : LineNumbers]
        \cup {[form |-> "text", digits |-> 0]}

ReviewTexts == UNION {[1..n -> ReviewLines] : n \in 0..MaxReviewLines}

\* /Line (\d+): (\w+ severity) - ([^\n]+)/ against one line.
MatchesIssuePattern(l) == l.form = "issue"

\* The loop over review.matchAll: one Issue per matching line, its line
\* the number parseInt read.
RECURSIVE ExtractIssues(_)
ExtractIssues(text) ==
    IF text = <<>> THEN <<>>
    ELSE IF MatchesIssuePattern(Head(text))
         THEN <<[line |-> Head(text).digits]>> \o ExtractIssues(Tail(text))
         ELSE ExtractIssues(Tail(text))

\* document.lineAt(n) throws for n outside 0 .. lineCount - 1.
LineAtThrows(n) == n < 0 \/ n > lineCount - 1

\* Math.max(0, Math.min(issue.line - 1, lines.length - 1))
ClampedLineIndex(iss) ==
    LET low == IF iss.line - 1 < lineCount - 1 THEN iss.line - 1
               ELSE lineCount - 1
    IN  IF low > 0 THEN low ELSE 0

NoDiagnostics == [reviewFile |-> <<>>, handleFileEvent |-> <<>>]

IssuesIdle ==
    /\ issueCaller = "none"
    /\ reviewLines = <<>>
    /\ lineCount = 1
    /\ issuesPc = "off"
    /\ issues = <<>>
    /\ diagnostics = NoDiagnostics

IssuesInit ==
    /\ issueCaller \in IssueCallers
    /\ reviewLines \in ReviewTexts
    /\ lineCount \in 1..MaxLineCount
    /\ issuesPc = "extract"
    /\ issues = <<>>
    /\ diagnostics = NoDiagnostics

\* reviewFile, the issue loop.
ExtractFromReview ==
    /\ issuesPc = "extract"
    /\ issues' = ExtractIssues(reviewLines)
    /\ issuesPc' = "diagnose"
    /\ UNCHANGED <<issueCaller, reviewLines, lineCount, diagnostics>>
    /\ UNCHANGED issuesFrame

\* reviewFile, DIAGNOSTIC_COLLECTION.set over issues.map: the range of each
\* Diagnostic is built from document.lineAt(issue.line - 1).
SetDiagnostics ==
    /\ issuesPc = "diagnose"
    /\ IF \E i \in 1..Len(issues) : LineAtThrows(issues[i].line - 1)
       THEN /\ issuesPc' = "thrown"
            /\ UNCHANGED diagnostics
       ELSE /\ issuesPc' = "returned"
            /\ diagnostics' =
                   [diagnostics EXCEPT !.reviewFile =
                        [i \in 1..Len(issues) |-> issues[i].line - 1]]
    /\ UNCHANGED <<issueCaller, reviewLines, lineCount, issues>>
    /\ UNCHANGED issuesFrame

\* handleFileEvent, after reviewFile returned: the diagnostics it builds
\* from review.issues.
ClampDiagnostics ==
    /\ issuesPc = "returned"
    /\ issueCaller = "handleFileEvent"
    /\ diagnostics' =
           [diagnostics EXCEPT !.handleFileEvent =
                [i \in 1..Len(issues) |-> ClampedLineIndex(issues[i])]]
    /\ issuesPc' = "clamped"
    /\ UNCHANGED <<issueCaller, reviewLines, lineCount, issues>>
    /\ UNCHANGED issuesFrame

-----------------------------------------------------------------------------
(* Activation and credential acquisition: activate (extension.ts and       *)
(* part_004), getLLMProvider and the configureLLM command (part_004)       *)

ActImpls == {"extension.ts", "part_004"}

Providers == {"flowise", "openai", "ollama"}

\* getLLMProvider(config, context, maxRetries = 2)
maxRetries == 2

\* A credential is known by what the backend and the adapter make of it:
\* accepted, answered 401, or refused by the adapter's constructor
\* (validateToken, validateApiKey).  "none" is no credential: nothing
\* stored, or an input box that was dismissed or left empty.
Credentials == {"valid", "rejected", "malformed"}
NoCredential == "none"

SecretKeys == {"openaiApiKey", "flowiseApiToken"}

KeyOf(provider) ==
    IF provider = "openai" THEN "openaiApiKey" ELSE "flowiseApiToken"

NoSecrets == [k \in SecretKeys |-> NoCredential]

\* testConnection: false for a credential the backend rejects; with any
\* other, true or false as the backend is reachable or not.
TestOutcomes(credential) ==
    IF credential = "rejected" THEN {FALSE} ELSE BOOLEAN

NoTest ==
    [provider |-> "none", credential |-> NoCredential, prompted |-> FALSE,
     result |-> FALSE, reusedFailed |-> FALSE, acq |-> 0]

NoTests == [getLLMProvider |-> NoTest, configureLLM |-> NoTest]

RequiredCommands ==
    {"llmcoderagent.openChat", "llmcoderagent.reviewProject",
     "llmcoderagent.reviewFile"}

CommandsOfExtension == RequiredCommands

CommandsOfPart004 ==
    RequiredCommands \cup
        {"llmcoderagent.applyQuickFix", "llmcoderagent.refactorFile",
         "llmcoderagent.reviewSelection", "llmcoderagent.explainCode",
         "llmcoderagent.toggleRealTime", "llmcoderagent.generateCode",
         "llmcoderagent.reviewGitDiff", "llmcoderagent.configureLLM"}

AllSet == [flowiseUrl |-> TRUE, apiToken |-> TRUE]

AcquireIdle ==
    /\ actImpl = "none"
    /\ settings = AllSet
    /\ activatePc = "off"
    /\ commands = {}
    /\ llmProvider = "none"
    /\ secrets = NoSecrets
    /\ attempts = 0
    /\ acqPc = "idle"
    /\ adapter = "none"
    /\ lastTest = NoTests
    /\ testsSinceSwitch = 0
    /\ failedCredentials = {}
    /\ acquisitions = 0
    /\ switches = 0
    /\ warningAnswer = "unasked"

AcquireInit ==
    /\ actImpl \in ActImpls
    /\ IF actImpl = "extension.ts"
          THEN /\ settings \in [flowiseUrl : BOOLEAN, apiToken : BOOLEAN]
               /\ llmProvider = "none"
               /\ secrets = NoSecrets
          ELSE /\ settings = AllSet
               /\ llmProvider \in Providers
               /\ secrets \in [SecretKeys -> Credentials \cup {NoCredential}]
    /\ activatePc = "start"
    /\ commands = {}
    /\ attempts = 0
    /\ acqPc = "idle"
    /\ adapter = "none"
    /\ lastTest = NoTests
    /\ testsSinceSwitch = 0
    /\ failedCredentials = {}
    /\ acquisitions = 0
    /\ switches = 0
    /\ warningAnswer = "unasked"

\* The entry of getLLMProvider: attempts = 0.
EnterGetLLMProvider ==
    /\ attempts' = 0
    /\ acqPc' = "try"
    /\ adapter' = "none"
    /\ testsSinceSwitch' = 0
    /\ acquisitions' = acquisitions + 1
    /\ warningAnswer' = "unasked"

\* extension.ts, activate: nothing is registered when flowiseUrl or
\* apiToken is not set.
ActivateOfExtension ==
    /\ actImpl = "extension.ts"
    /\ activatePc = "start"
    /\ commands' = IF ~settings.flowiseUrl \/ ~settings.apiToken
                      THEN commands
                      ELSE commands \cup CommandsOfExtension
    /\ activatePc' = "done"
    /\ UNCHANGED <<warningAnswer, actImpl, settings, llmProvider, secrets, attempts, acqPc,
                   adapter, lastTest, testsSinceSwitch, failedCredentials,
                   acquisitions, switches>>
    /\ UNCHANGED acquireFrame

\* part_004, activate: the first thing it awaits is getLLMProvider.
ActivateAcquires ==
    /\ actImpl = "part_004"
    /\ activatePc = "start"
    /\ activatePc' = "acquiring"
    /\ EnterGetLLMProvider
    /\ UNCHANGED <<actImpl, settings, commands, llmProvider, secrets,
                   lastTest, failedCredentials, switches>>
    /\ UNCHANGED acquireFrame

\* part_004, activate: with the provider returned the commands are
\* registered; the rejection of getLLMProvider goes to the catch of
\* activate, which reports it.
ActivateEnds ==
    /\ activatePc = "acquiring"
    /\ acqPc \in {"returned", "thrown"}
    /\ commands' = IF acqPc = "returned"
                      THEN commands \cup CommandsOfPart004
                      ELSE commands
    /\ activatePc' = "done"
    /\ UNCHANGED <<warningAnswer, actImpl, settings, llmProvider, secrets, attempts, acqPc,
                   adapter, lastTest, testsSinceSwitch, failedCredentials,
                   acquisitions, switches>>
    /\ UNCHANGED acquireFrame

\* A registered command of part_004 asks for the provider.
CommandAcquires ==
    /\ actImpl = "part_004"
    /\ activatePc = "done"
    /\ commands # {}
    /\ acqPc \in {"returned", "thrown"}
    /\ acquisitions < MaxAcquisitions
    /\ EnterGetLLMProvider
    /\ UNCHANGED <<actImpl, settings, activatePc, commands, llmProvider,
                   secrets, lastTest, failedCredentials, switches>>
    /\ UNCHANGED acquireFrame

TestPassedIgnored(ok) == TRUE

\* if (await provider.testConnection()) return provider;
TestPassed(ok) == ok

\* One pass through the try block of getLLMProvider: the credential is read
\* from the store or asked for and stored, the adapter is constructed and
\* its connection is tested.
TryProvider ==
    /\ acqPc = "try"
    /\ \E input \in Credentials \cup {NoCredential}, ok \in BOOLEAN :
          LET keyed == llmProvider # "ollama"
              stored == IF keyed THEN secrets[KeyOf(llmProvider)]
                        ELSE NoCredential
              prompted == keyed /\ stored = NoCredential
              credential == IF prompted THEN input ELSE stored
              tested == /\ ~(prompted /\ input = NoCredential)
                        /\ credential # "malformed"
          IN  /\ ~prompted => input = NoCredential
              /\ IF tested THEN ok \in TestOutcomes(credential)
                 ELSE ok = FALSE
              /\ secrets' = IF prompted /\ input # NoCredential
                               THEN [secrets EXCEPT
                                        ![KeyOf(llmProvider)] = input]
                               ELSE secrets
              /\ IF tested
                    THEN /\ lastTest' =
                               [lastTest EXCEPT !.getLLMProvider =
                                   [provider |-> llmProvider,
                                    credential |-> credential,
                                    prompted |-> prompted,
                                    result |-> ok,
                                    reusedFailed |->
                                        /\ ~prompted
                                        /\ <<llmProvider, credential>>
                                               \in failedCredentials,
                                    acq |-> acquisitions]]
                         /\ testsSinceSwitch' = testsSinceSwitch + 1
                         /\ failedCredentials' =
                               IF ok \/ ~keyed THEN failedCredentials
                               ELSE failedCredentials
                                        \cup {<<llmProvider, credential>>}
                    ELSE UNCHANGED <<lastTest, testsSinceSwitch,
                                     failedCredentials>>
              /\ IF tested /\ TestPassed(ok)
                    THEN /\ acqPc' = "returned"
                         /\ adapter' = llmProvider
                    ELSE /\ acqPc' = "caught"
                         /\ adapter' = adapter
    /\ UNCHANGED <<warningAnswer, actImpl, settings, activatePc, commands, llmProvider,
                   attempts, acquisitions, switches>>
    /\ UNCHANGED acquireFrame

\* The catch of getLLMProvider up to its warning: attempts++.
CatchSetupError ==
    /\ acqPc = "caught"
    /\ attempts' = attempts + 1
    /\ acqPc' = IF attempts + 1 >= maxRetries THEN "warning" ELSE "try"
    /\ UNCHANGED <<warningAnswer, actImpl, settings, activatePc, commands, llmProvider,
                   secrets, adapter, lastTest, testsSinceSwitch,
                   failedCredentials, acquisitions, switches>>
    /\ UNCHANGED acquireFrame

WarningActions == {"Switch Provider", "Open Settings", "Retry", "none"}

\* The answer to the warning.  "Retry" continues the loop with attempts as
\* it is: the loop test fails and the function ends in its last throw.
AnswerWarning ==
    /\ acqPc = "warning"
    /\ \E action \in WarningActions, pick \in Providers \cup {"none"} :
          /\ action # "Switch Provider" => pick = "none"
          /\ warningAnswer' = action
          /\ IF action = "Switch Provider" /\ pick # "none"
                THEN /\ switches < MaxSwitches
                     /\ llmProvider' = pick
                     /\ attempts' = 0
                     /\ testsSinceSwitch' = 0
                     /\ switches' = switches + 1
                     /\ acqPc' = "try"
                ELSE /\ acqPc' = IF action = "Retry" /\ attempts < maxRetries
                                    THEN "try" ELSE "thrown"
                     /\ UNCHANGED <<llmProvider, attempts, testsSinceSwitch,
                                    switches>>
    /\ UNCHANGED <<actImpl, settings, activatePc, commands, secrets, adapter,
                   lastTest, failedCredentials, acquisitions>>
    /\ UNCHANGED acquireFrame

\* The configureLLM command, for a provider that was picked: the stored
\* credential is deleted, the one typed is stored, then tested.
ConfigureLLM ==
    /\ activatePc = "done"
    /\ "llmcoderagent.configureLLM" \in commands
    /\ acqPc \in {"returned", "thrown"}
    /\ acquisitions < MaxAcquisitions
    /\ \E providerChoice \in Providers,
          input \in Credentials \cup {NoCredential}, ok \in BOOLEAN :
          LET keyed == providerChoice # "ollama"
              tested == IF keyed
                           THEN input \notin {NoCredential, "malformed"}
                           ELSE input # NoCredential
          IN  /\ IF tested
                    THEN ok \in TestOutcomes(IF keyed THEN input
                                             ELSE NoCredential)
                    ELSE ok = FALSE
              /\ ~keyed => input \in {NoCredential, "valid"}
              /\ llmProvider' = providerChoice
              /\ secrets' = IF keyed
                               THEN [secrets EXCEPT
                                        ![KeyOf(providerChoice)] = input]
                               ELSE secrets
              /\ IF tested
                    THEN /\ lastTest' =
                               [lastTest EXCEPT !.configureLLM =
                                   [provider |-> providerChoice,
                                    credential |->
                                        IF keyed THEN input
                                        ELSE NoCredential,
                                    prompted |-> TRUE,
                                    result |-> ok,
                                    reusedFailed |-> FALSE,
                                    acq |-> 0]]
                         /\ failedCredentials' =
                               IF ok \/ ~keyed THEN failedCredentials
                               ELSE failedCredentials
                                        \cup {<<providerChoice, input>>}
                    ELSE UNCHANGED <<lastTest, failedCredentials>>
    /\ UNCHANGED <<warningAnswer, actImpl, settings, activatePc, commands, attempts, acqPc,
                   adapter, testsSinceSwitch, acquisitions, switches>>
    /\ UNCHANGED acquireFrame

-----------------------------------------------------------------------------
(* Chat history: the sendMessage handler of the openChat command           *)
(* (extension.ts and part_004 trim it the same way)                        *)

Turns == 1..MaxTurns

\* Array.prototype.slice(start): a negative start counts from the end, and
\* -0 is 0.
JsSlice(s, start) ==
    LET n == Len(s)
        from == IF start < 0
                   THEN (IF n + start > 0 THEN n + start ELSE 0)
                   ELSE (IF start < n THEN start ELSE n)
    IN  SubSeq(s, from + 1, n)

\* if (chatHistory.length > limit) chatHistory = chatHistory.slice(-limit)
TrimHistory(history, limit) ==
    IF Len(history) > limit THEN JsSlice(history, 0 - limit) ELSE history

ChatIdle ==
    /\ messageHistoryLimit = 0
    /\ chatHistory = <<>>
    /\ chatLog = <<>>
    /\ pendingTurns = {}
    /\ turns = 0
    /\ failedTurns = {}
    /\ chatSince = "start"

ChatInit ==
    /\ messageHistoryLimit \in 0..MaxHistoryLimit
    /\ chatHistory = <<>>
    /\ chatLog = <<>>
    /\ pendingTurns = {}
    /\ turns = 0
    /\ failedTurns = {}
    /\ chatSince = "start"

\* The handler receives sendMessage and awaits the backend.
ReceiveSendMessage ==
    /\ turns < MaxTurns
    /\ turns' = turns + 1
    /\ pendingTurns' = pendingTurns \cup {turns + 1}
    /\ chatSince' = "message"
    /\ UNCHANGED <<messageHistoryLimit, chatHistory, chatLog, failedTurns>>
    /\ UNCHANGED chatFrame

\* A variant that pushes the user message alone.
TurnMessagesUserOnly(t) ==
    <<[role |-> "user", turn |-> t]>>

\* chatHistory.push({role: "user", ...}, {role: "assistant", ...})
TurnMessages(t) ==
    <<[role |-> "user", turn |-> t], [role |-> "assistant", turn |-> t]>>

\* The backend answered: the two messages of the turn are pushed and the
\* history is trimmed.
CompleteTurn(t) ==
    /\ t \in pendingTurns
    /\ chatHistory' = TrimHistory(chatHistory \o TurnMessages(t),
                                  messageHistoryLimit)
    /\ chatLog' = chatLog \o TurnMessages(t)
    /\ pendingTurns' = pendingTurns \ {t}
    /\ UNCHANGED <<messageHistoryLimit, turns, failedTurns, chatSince>>
    /\ UNCHANGED chatFrame

\* getLLMResponse threw: the turn is reported as failed, nothing is pushed.
FailTurn(t) ==
    /\ t \in pendingTurns
    /\ pendingTurns' = pendingTurns \ {t}
    /\ failedTurns' = failedTurns \cup {t}
    /\ UNCHANGED <<messageHistoryLimit, chatHistory, chatLog, turns,
                   chatSince>>
    /\ UNCHANGED chatFrame

\* panel.onDidDispose: chatHistory = []. The handlers that await the backend
\* go on.
DisposeChatPanel ==
    /\ chatHistory' = <<>>
    /\ chatLog' = <<>>
    /\ chatSince' = "reset"
    /\ UNCHANGED <<messageHistoryLimit, pendingTurns, turns, failedTurns>>
    /\ UNCHANGED chatFrame

\* The chat command "clear history" (part_004): chatHistory = [].
ClearHistory ==
    /\ chatHistory' = <<>>
    /\ chatLog' = <<>>
    /\ chatSince' = "reset"
    /\ UNCHANGED <<messageHistoryLimit, pendingTurns, turns, failedTurns>>
    /\ UNCHANGED chatFrame

-----------------------------------------------------------------------------
(* The reviewSelection, reviewGitDiff and refactorFile commands (part_004) *)

PanelCommands == {"reviewSelection", "reviewGitDiff", "refactorFile"}

DiffFiles == {"a.ts", "b.ts"}

\* getGitDiff: one {file, diff} per changed file that the filter includes.
DiffLists ==
    {d \in UNION {[1..n -> [file : DiffFiles, diff : Contents]] :
                      n \in 0..MaxDiffs} :
        \A i, j \in 1..Len(d) : i # j => d[i].file # d[j].file}

CallsApplyFileContentAlways(c) == TRUE

\* The handlers whose body calls applyFileContent: refactorFile does, with
\* the suggestedChanges of its review; reviewSelection and reviewGitDiff
\* hand their reply to getReviewWebviewHtml only.
CallsApplyFileContent(c) == c = "refactorFile"

CommandIdle ==
    /\ command = "none"
    /\ cmdPc = "off"
    /\ selection = 0
    /\ diffs = <<>>
    /\ diffReviews = <<>>
    /\ cmdPanel = "none"
    /\ fileEffects = <<>>

CommandInit ==
    /\ command \in PanelCommands
    /\ cmdPc = "start"
    /\ selection \in Contents
    /\ diffs \in IF command = "reviewGitDiff" THEN DiffLists ELSE {<<>>}
    /\ diffReviews = <<>>
    /\ cmdPanel = "none"
    /\ fileEffects = <<>>

\* Every one of the handlers begins with getLLMProvider; its rejection goes
\* to the handler's catch.
AcquireForCommand ==
    /\ cmdPc = "start"
    /\ \E ok \in BOOLEAN : cmdPc' = IF ok THEN "acquired" ELSE "failed"
    /\ UNCHANGED <<command, selection, diffs, diffReviews, cmdPanel,
                   fileEffects>>
    /\ UNCHANGED commandFrame

\* What a handler does with a suggestion: applyFileContent enters the gate,
\* which may end there (no change, declined), after the backup (failed
\* write) or after the write.
GateEffects(c, path) ==
    {SubSeq(<<[command |-> c, kind |-> "gate", path |-> path],
              [command |-> c, kind |-> "backup", path |-> path],
              [command |-> c, kind |-> "write", path |-> path]>>, 1, n) :
         n \in 1..3}

\* reviewSelection: openTextDocument, getText(range), getLLMResponse, then
\* the panel.
ReviewSelection ==
    /\ command = "reviewSelection"
    /\ cmdPc = "acquired"
    /\ \E ok \in BOOLEAN :
          IF ok
             THEN /\ cmdPanel' = "review"
                  /\ cmdPc' = "done"
                  /\ IF CallsApplyFileContent(command)
                        THEN \E e \in GateEffects(command, "a.ts") :
                                 fileEffects' = fileEffects \o e
                        ELSE fileEffects' = fileEffects
             ELSE /\ cmdPc' = "failed"
                  /\ UNCHANGED <<cmdPanel, fileEffects>>
    /\ UNCHANGED <<command, selection, diffs, diffReviews>>
    /\ UNCHANGED commandFrame

\* reviewGitDiff up to its loop: no diffs ends the command, otherwise the
\* panel opens on "Reviewing diff...".
FetchGitDiff ==
    /\ command = "reviewGitDiff"
    /\ cmdPc = "acquired"
    /\ IF Len(diffs) = 0
          THEN /\ cmdPc' = "done"
               /\ cmdPanel' = cmdPanel
          ELSE /\ cmdPc' = "reviewing"
               /\ cmdPanel' = "Reviewing diff..."
    /\ UNCHANGED <<command, selection, diffs, diffReviews, fileEffects>>
    /\ UNCHANGED commandFrame

\* One pass of the loop over the diffs: getLLMResponse for the diff text;
\* its rejection ends the command in the catch.
ReviewNextDiff ==
    /\ command = "reviewGitDiff"
    /\ cmdPc = "reviewing"
    /\ Len(diffReviews) < Len(diffs)
    /\ \E ok \in BOOLEAN :
          IF ok
             THEN /\ diffReviews' =
                        Append(diffReviews,
                               diffs[Len(diffReviews) + 1].file)
                  /\ cmdPc' = cmdPc
                  /\ IF CallsApplyFileContent(command)
                        THEN \E e \in GateEffects(command,
                                     diffs[Len(diffReviews) + 1].file) :
                                 fileEffects' = fileEffects \o e
                        ELSE fileEffects' = fileEffects
             ELSE /\ cmdPc' = "failed"
                  /\ UNCHANGED <<diffReviews, fileEffects>>
    /\ UNCHANGED <<command, selection, diffs, cmdPanel>>
    /\ UNCHANGED commandFrame

\* After the loop: the joined reviews go to the panel.
ShowDiffSummary ==
    /\ command = "reviewGitDiff"
    /\ cmdPc = "reviewing"
    /\ Len(diffReviews) = Len(diffs)
    /\ cmdPanel' = "summary"
    /\ cmdPc' = "done"
    /\ UNCHANGED <<command, selection, diffs, diffReviews, fileEffects>>
    /\ UNCHANGED commandFrame

\* refactorFile: reviewFile, then applyFileContent when the review carries
\* suggestedChanges.
RefactorFile ==
    /\ command = "refactorFile"
    /\ cmdPc = "acquired"
    /\ \E ok \in BOOLEAN, suggested \in BOOLEAN :
          IF ok
             THEN /\ cmdPc' = "done"
                  /\ IF suggested /\ CallsApplyFileContent(command)
                        THEN \E e \in GateEffects(command, "a.ts") :
                                 fileEffects' = fileEffects \o e
                        ELSE fileEffects' = fileEffects
             ELSE /\ ~suggested
                  /\ cmdPc' = "failed"
                  /\ fileEffects' = fileEffects
    /\ UNCHANGED <<command, selection, diffs, diffReviews, cmdPanel>>
    /\ UNCHANGED commandFrame

-----------------------------------------------------------------------------
(* Real-time code access: RealTimeCodeAccessManager and the toggleRealTime *)
(* command (part_004)                                                      *)

RtPaths == {"a.ts", "b.ts"}

\* The workspaces tried: per path, what shouldIncludeFile answers for it
\* and its size in bytes.
RtFilePool ==
    {[p \in RtPaths |->
         IF p = "a.ts" THEN [included |-> TRUE, size |-> 1]
         ELSE [included |-> FALSE, size |-> 0]],
     [p \in RtPaths |->
         IF p = "a.ts" THEN [included |-> TRUE, size |-> 0]
         ELSE [included |-> TRUE, size |-> 2]]}

RealtimeIdle ==
    /\ realTimeDiagnostics = FALSE
    /\ isRealTimeEnabled = FALSE
    /\ watcher = FALSE
    /\ switchedBy = "none"
    /\ rtFiles = [p \in RtPaths |-> [included |-> FALSE, size |-> 0]]
    /\ statPending = {}
    /\ debounceTimers = {}
    /\ reReviews = <<>>
    /\ awaited = {}
    /\ rtEvents = 0
    /\ toggles = 0

\* The manager as its constructor leaves it: the flag starts false and
\* toggleRealTime(config.realTimeDiagnostics) has run.
RealtimeInit ==
    /\ maxFileSize \in 0..MaxCeiling
    /\ realTimeDiagnostics \in BOOLEAN
    /\ isRealTimeEnabled = realTimeDiagnostics
    /\ watcher = realTimeDiagnostics
    /\ switchedBy = IF realTimeDiagnostics THEN "constructor" ELSE "none"
    /\ rtFiles \in RtFilePool
    /\ statPending = {}
    /\ debounceTimers = {}
    /\ reReviews = <<>>
    /\ awaited = {}
    /\ rtEvents = 0
    /\ toggles = 0

\* The toggleRealTime command: toggleRealTime(!isRealTimeEnabled).  Switching
\* on creates the watcher; switching off disposes it and clears the timers.
ToggleRealTime ==
    /\ toggles < MaxToggles
    /\ toggles' = toggles + 1
    /\ isRealTimeEnabled' = ~isRealTimeEnabled
    /\ watcher' = ~isRealTimeEnabled
    /\ switchedBy' = "command"
    /\ debounceTimers' = IF isRealTimeEnabled THEN {} ELSE debounceTimers
    /\ awaited' = IF isRealTimeEnabled THEN {} ELSE awaited
    /\ UNCHANGED <<maxFileSize, realTimeDiagnostics, rtFiles, statPending,
                   reReviews, rtEvents>>
    /\ UNCHANGED realtimeFrame

\* The watcher reports a create or a change of p: handleFileEvent up to its
\* await of fs.stat.
FileEvent(p) ==
    /\ watcher
    /\ rtEvents < MaxEvents
    /\ rtEvents' = rtEvents + 1
    /\ statPending' = IF rtFiles[p].included THEN statPending \cup {p}
                      ELSE statPending
    /\ awaited' = IF /\ switchedBy = "command"
                     /\ rtFiles[p].included
                     /\ rtFiles[p].size <= maxFileSize
                     THEN awaited \cup {p}
                     ELSE awaited
    /\ UNCHANGED <<maxFileSize, realTimeDiagnostics, isRealTimeEnabled,
                   watcher, switchedBy, rtFiles, debounceTimers, reReviews,
                   toggles>>
    /\ UNCHANGED realtimeFrame

\* fs.stat resolved: a file over the ceiling is skipped, any other gets its
\* debounce timer (re)set.
StatReturns(p) ==
    /\ p \in statPending
    /\ statPending' = statPending \ {p}
    /\ debounceTimers' = IF rtFiles[p].size > maxFileSize
                            THEN debounceTimers
                            ELSE debounceTimers \cup {p}
    /\ UNCHANGED <<maxFileSize, realTimeDiagnostics, isRealTimeEnabled,
                   watcher, switchedBy, rtFiles, reReviews, awaited,
                   rtEvents, toggles>>
    /\ UNCHANGED realtimeFrame

\* if (this.config.realTimeDiagnostics) { ... reviewFile(...) ... }
ReviewsOnTimer == realTimeDiagnostics

\* The debounce interval of p elapsed: the content is read into the project
\* context, the file is re-reviewed when the manager's configuration says
\* so, and the timer is removed.
TimerFires(p) ==
    /\ p \in debounceTimers
    /\ debounceTimers' = debounceTimers \ {p}
    /\ IF ReviewsOnTimer
          THEN /\ reReviews' = Append(reReviews, p)
               /\ awaited' = awaited \ {p}
          ELSE UNCHANGED <<reReviews, awaited>>
    /\ UNCHANGED <<maxFileSize, realTimeDiagnostics, isRealTimeEnabled,
                   watcher, switchedBy, rtFiles, statPending, rtEvents,
                   toggles>>
    /\ UNCHANGED realtimeFrame

-----------------------------------------------------------------------------
(* The request string of a file review: reviewFile (extension.ts and      *)
(* part_004)                                                               *)

PromptImpls == {"extension.ts", "part_004"}

TargetPaths == {<<"src", "a.ts">>, <<"b.ts">>}

ContentWords == {"x", "y"}

TargetContents == SeqsUpTo(ContentWords, MaxPromptContent)

\* The templates a user may have set; <<>> is the setting left empty.
TemplatePool ==
    {<<>>, <<"List the bugs">>, <<"Review", "b.ts", "for", "x">>}

\* The built-in template of both revisions: the path, the fenced content,
\* then the instructions (part_004 puts the related files and the project
\* context between them).
defaultReviewPrompt(path, text) ==
    <<"Review the following code from">> \o path \o <<"fence">> \o text
        \o <<"fence">> \o <<"Provide a detailed review">>

\* extension.ts reads no reviewPrompt setting.
\* part_004: const prompt = config.reviewPrompt || defaultReviewPrompt;
BuildReviewPrompt(impl, template, path, text) ==
    IF impl = "part_004" /\ template # <<>>
       THEN template
       ELSE defaultReviewPrompt(path, text)

PromptIdle ==
    /\ promptImpl = "none"
    /\ reviewPrompt = <<>>
    /\ targetPath = <<>>
    /\ targetContent = <<>>
    /\ promptPc = "off"
    /\ prompt = <<>>

PromptInit ==
    /\ promptImpl \in PromptImpls
    /\ reviewPrompt \in TemplatePool
    /\ targetPath \in TargetPaths
    /\ targetContent \in TargetContents
    /\ promptPc = "build"
    /\ prompt = <<>>

\* reviewFile from the content it read to the prompt.
BuildPrompt ==
    /\ promptPc = "build"
    /\ prompt' = BuildReviewPrompt(promptImpl, reviewPrompt, targetPath,
                                   targetContent)
    /\ promptPc' = "built"
    /\ UNCHANGED <<promptImpl, reviewPrompt, targetPath, targetContent>>
    /\ UNCHANGED promptFrame

\* getLLMResponse(prompt, ...)
SendPrompt ==
    /\ promptPc = "built"
    /\ promptPc' = "sent"
    /\ UNCHANGED <<promptImpl, reviewPrompt, targetPath, targetContent,
                   prompt>>
    /\ UNCHANGED promptFrame

-----------------------------------------------------------------------------
(* The debounce timers of RealTimeCodeAccessManager, one by one (part_004): *)
(* debounce, its callers, toggleRealTime(false) and dispose.  The paths are *)
(* included files within the size ceiling.                                  *)

DebounceIdle ==
    /\ dbDiagnostics = FALSE
    /\ dbWatcher = FALSE
    /\ dbDisposed = FALSE
    /\ timersByKey = [p \in RtPaths |-> 0]
    /\ timerKeys = <<>>
    /\ timerEpoch = <<>>
    /\ armedTimers = {}
    /\ runningTimers = {}
    /\ dbStatPending = {}
    /\ switchOffs = 0
    /\ dbEvents = 0
    /\ dbToggles = 0

\* The manager as its constructor leaves it:
\* toggleRealTime(config.realTimeDiagnostics) has run.
DebounceInit ==
    /\ dbDiagnostics \in BOOLEAN
    /\ dbWatcher = dbDiagnostics
    /\ dbDisposed = FALSE
    /\ timersByKey = [p \in RtPaths |-> 0]
    /\ timerKeys = <<>>
    /\ timerEpoch = <<>>
    /\ armedTimers = {}
    /\ runningTimers = {}
    /\ dbStatPending = {}
    /\ switchOffs = 0
    /\ dbEvents = 0
    /\ dbToggles = 0

\* debounce(func, uri, wait): if the map has the key, clearTimeout of the
\* timer it holds; then the key is set to a new timer.
Debounce(p) ==
    LET id == Len(timerKeys) + 1
    IN  /\ armedTimers' = (armedTimers \ {timersByKey[p]}) \cup {id}
        /\ timersByKey' = [timersByKey EXCEPT ![p] = id]
        /\ timerKeys' = Append(timerKeys, p)
        /\ timerEpoch' = Append(timerEpoch, switchOffs)

\* debounceTimers.forEach(clearTimeout); debounceTimers.clear()
ClearTimers ==
    /\ armedTimers' = armedTimers \ {timersByKey[p] : p \in RtPaths}
    /\ timersByKey' = [p \in RtPaths |-> 0]

\* The watcher reports a create or a change of p: handleFileEvent up to its
\* await of fs.stat.
WatcherEvent(p) ==
    /\ dbWatcher
    /\ dbEvents < MaxEvents
    /\ dbEvents' = dbEvents + 1
    /\ dbStatPending' = dbStatPending \cup {p}
    /\ UNCHANGED <<dbDiagnostics, dbWatcher, dbDisposed, timersByKey,
                   timerKeys, timerEpoch, armedTimers, runningTimers,
                   switchOffs, dbToggles>>
    /\ UNCHANGED debounceFrame

\* fs.stat resolved: handleFileEvent calls debounce.
StatResolves(p) ==
    /\ p \in dbStatPending
    /\ dbStatPending' = dbStatPending \ {p}
    /\ Debounce(p)
    /\ UNCHANGED <<dbDiagnostics, dbWatcher, dbDisposed, runningTimers,
                   switchOffs, dbEvents, dbToggles>>
    /\ UNCHANGED debounceFrame

\* onDidChangeTextDocument of activate: with realTimeDiagnostics configured
\* it calls debounce of the manager, whatever the mode.
DocumentChanged(p) ==
    /\ ~dbDisposed
    /\ dbDiagnostics
    /\ dbEvents < MaxEvents
    /\ dbEvents' = dbEvents + 1
    /\ Debounce(p)
    /\ UNCHANGED <<dbDiagnostics, dbWatcher, dbDisposed, runningTimers,
                   dbStatPending, switchOffs, dbToggles>>
    /\ UNCHANGED debounceFrame

\* A timer fires: its callback runs up to await func(uri).
TimerExpires(id) ==
    /\ id \in armedTimers
    /\ armedTimers' = armedTimers \ {id}
    /\ runningTimers' = runningTimers \cup {id}
    /\ UNCHANGED <<dbDiagnostics, dbWatcher, dbDisposed, timersByKey,
                   timerKeys, timerEpoch, dbStatPending, switchOffs,
                   dbEvents, dbToggles>>
    /\ UNCHANGED debounceFrame

\* func(uri) resolved (both callers catch their own errors):
\* debounceTimers.delete(key), whichever timer the key holds.
ReviewCompletes(id) ==
    /\ id \in runningTimers
    /\ runningTimers' = runningTimers \ {id}
    /\ timersByKey' = [timersByKey EXCEPT ![timerKeys[id]] = 0]
    /\ UNCHANGED <<dbDiagnostics, dbWatcher, dbDisposed, timerKeys,
                   timerEpoch, armedTimers, dbStatPending, switchOffs,
                   dbEvents, dbToggles>>
    /\ UNCHANGED debounceFrame

\* The toggleRealTime command: toggleRealTime(!isRealTimeEnabled).  Switching
\* on creates the watcher; switching off disposes it and clears the timers
\* of the map.
ToggleDebounced ==
    /\ ~dbDisposed
    /\ dbToggles < MaxToggles
    /\ dbToggles' = dbToggles + 1
    /\ dbWatcher' = ~dbWatcher
    /\ IF dbWatcher
          THEN /\ ClearTimers
               /\ switchOffs' = switchOffs + 1
          ELSE UNCHANGED <<armedTimers, timersByKey, switchOffs>>
    /\ UNCHANGED <<dbDiagnostics, dbDisposed, timerKeys, timerEpoch,
                   runningTimers, dbStatPending, dbEvents>>
    /\ UNCHANGED debounceFrame

\* dispose(): the watcher is disposed and the timers of the map are cleared;
\* the subscriptions of activate end with it.
DisposeManager ==
    /\ ~dbDisposed
    /\ dbDisposed' = TRUE
    /\ dbWatcher' = FALSE
    /\ ClearTimers
    /\ switchOffs' = switchOffs + 1
    /\ UNCHANGED <<dbDiagnostics, timerKeys, timerEpoch, runningTimers,
                   dbStatPending, dbEvents, dbToggles>>
    /\ UNCHANGED debounceFrame

-----------------------------------------------------------------------------
(* The content cache of RealTimeCodeAccessManager (part_004): readFileContent *)
(* with fileCache, initializeProjectContext, handleFileEvent and              *)
(* handleFileDelete.  The paths are included files within the size ceiling.   *)

CacheTexts == {"old", "new"}

NoRead == [path |-> "none", content |-> "none", onDisk |-> "none"]

CacheIdle ==
    /\ cacheDisk = [p \in RtPaths |-> "absent"]
    /\ fileCache = [p \in RtPaths |-> "none"]
    /\ projectContext = [p \in RtPaths |-> "none"]
    /\ cacheChanges = {}
    /\ cacheDeletes = {}
    /\ lastRead = NoRead
    /\ cacheEvents = 0

\* The manager as its fields are initialised, over any workspace.
CacheInit ==
    /\ cacheDisk \in [RtPaths -> CacheTexts \cup {"absent"}]
    /\ fileCache = [p \in RtPaths |-> "none"]
    /\ projectContext = [p \in RtPaths |-> "none"]
    /\ cacheChanges = {}
    /\ cacheDeletes = {}
    /\ lastRead = NoRead
    /\ cacheEvents = 0

\* readFileContent(uri, config, cache) of a file that exists: the entry of
\* the cache when it has one, else the decoded bytes of the file.
CachedOrRead(p) ==
    IF fileCache[p] # "none" THEN fileCache[p] ELSE cacheDisk[p]

\* const content = await readFileContent(uri, this.config, this.fileCache);
\* this.projectContext.set(asRelativePath(uri), content).  fs.stat of a
\* missing file throws, and the caller logs the error.
ReadIntoContext(p) ==
    IF cacheDisk[p] = "absent"
       THEN UNCHANGED <<fileCache, projectContext, lastRead>>
       ELSE /\ fileCache' = [fileCache EXCEPT ![p] = CachedOrRead(p)]
            /\ projectContext' = [projectContext EXCEPT ![p] = CachedOrRead(p)]
            /\ lastRead' = [path |-> p, content |-> CachedOrRead(p),
                            onDisk |-> cacheDisk[p]]

\* initializeProjectContext reaches p.
InitializeContext(p) ==
    /\ fileCache[p] = "none"
    /\ projectContext[p] = "none"
    /\ cacheDisk[p] # "absent"
    /\ ReadIntoContext(p)
    /\ UNCHANGED <<cacheDisk, cacheChanges, cacheDeletes, cacheEvents>>
    /\ UNCHANGED cacheFrame

\* The file p is written or created with the text t: the watcher will report
\* it.
ChangeOnDisk(p, t) ==
    /\ cacheEvents < MaxEvents
    /\ cacheEvents' = cacheEvents + 1
    /\ cacheDisk[p] # t
    /\ cacheDisk' = [cacheDisk EXCEPT ![p] = t]
    /\ cacheChanges' = cacheChanges \cup {p}
    /\ UNCHANGED <<fileCache, projectContext, cacheDeletes, lastRead>>
    /\ UNCHANGED cacheFrame

\* The file p is deleted: the watcher will report it.
DeleteOnDisk(p) ==
    /\ cacheEvents < MaxEvents
    /\ cacheEvents' = cacheEvents + 1
    /\ cacheDisk[p] # "absent"
    /\ cacheDisk' = [cacheDisk EXCEPT ![p] = "absent"]
    /\ cacheDeletes' = cacheDeletes \cup {p}
    /\ UNCHANGED <<fileCache, projectContext, cacheChanges, lastRead>>
    /\ UNCHANGED cacheFrame

\* handleFileEvent for p, through fs.stat and the debounce interval to the
\* read of the content.
HandleFileChange(p) ==
    /\ p \in cacheChanges
    /\ cacheChanges' = cacheChanges \ {p}
    /\ ReadIntoContext(p)
    /\ UNCHANGED <<cacheDisk, cacheDeletes, cacheEvents>>
    /\ UNCHANGED cacheFrame

\* handleFileDelete: projectContext.delete(relativePath);
\* fileCache.delete(uri.fsPath).
HandleFileDelete(p) ==
    /\ p \in cacheDeletes
    /\ cacheDeletes' = cacheDeletes \ {p}
    /\ projectContext' = [projectContext EXCEPT ![p] = "none"]
    /\ fileCache' = [fileCache EXCEPT ![p] = "none"]
    /\ UNCHANGED <<cacheDisk, cacheChanges, lastRead, cacheEvents>>
    /\ UNCHANGED cacheFrame

-----------------------------------------------------------------------------
(* Specifications *)

InitGate ==
    GateInit /\ RetryIdle /\ LoaderIdle /\ BatchIdle /\ FilterIdle
    /\ FindIdle /\ ApplyIdle /\ ReplyIdle /\ IssuesIdle /\ AcquireIdle
    /\ ChatIdle /\ CommandIdle /\ RealtimeIdle /\ PromptIdle
    /\ DebounceIdle /\ CacheIdle /\ maxFileSize = 0

SpecGate == InitGate /\ [][GateNext]_vars

RetryNext ==
    \/ EnterLoop
    \/ CallSucceeds
    \/ CallFails
    \/ Wake

InitRetry ==
    RetryInit /\ GateIdle /\ LoaderIdle /\ BatchIdle /\ FilterIdle
    /\ FindIdle /\ ApplyIdle /\ ReplyIdle /\ IssuesIdle /\ AcquireIdle
    /\ ChatIdle /\ CommandIdle /\ RealtimeIdle /\ PromptIdle
    /\ DebounceIdle /\ CacheIdle /\ maxFileSize = 0

SpecRetry == InitRetry /\ [][RetryNext]_vars

LoaderNext ==
    \/ StatFile
    \/ ReadFile
    \/ ReviewLoaded

InitLoader ==
    LoaderInit /\ GateIdle /\ RetryIdle /\ BatchIdle /\ FilterIdle
    /\ FindIdle /\ ApplyIdle /\ ReplyIdle /\ IssuesIdle /\ AcquireIdle
    /\ ChatIdle /\ CommandIdle /\ RealtimeIdle /\ PromptIdle
    /\ DebounceIdle /\ CacheIdle

SpecLoader == InitLoader /\ [][LoaderNext]_vars

BatchNext ==
    \/ StartBatch
    \/ CancelBatch
    \/ \E w \in Workers : WorkerRead(w)
    \/ \E w \in Workers : WorkerReview(w)
    \/ FinishBatch
    \/ CommandThrows
    \/ CatchStep

InitBatch ==
    BatchInit /\ GateIdle /\ RetryIdle /\ LoaderIdle /\ FilterIdle
    /\ FindIdle /\ ApplyIdle /\ ReplyIdle /\ IssuesIdle /\ AcquireIdle
    /\ ChatIdle /\ CommandIdle /\ RealtimeIdle /\ PromptIdle
    /\ DebounceIdle /\ CacheIdle

SpecBatch == InitBatch /\ [][BatchNext]_vars

FilterNext == ShouldIncludeFile

InitFilter ==
    FilterInit /\ GateIdle /\ RetryIdle /\ LoaderIdle /\ BatchIdle
    /\ FindIdle /\ ApplyIdle /\ ReplyIdle /\ IssuesIdle /\ AcquireIdle
    /\ ChatIdle /\ CommandIdle /\ RealtimeIdle /\ PromptIdle
    /\ DebounceIdle /\ CacheIdle /\ maxFileSize = 0

SpecFilter == InitFilter /\ [][FilterNext]_vars

FindNext == EnumerateFiles

InitFind ==
    FindInit /\ GateIdle /\ RetryIdle /\ LoaderIdle /\ BatchIdle
    /\ FilterIdle /\ ApplyIdle /\ ReplyIdle /\ IssuesIdle /\ AcquireIdle
    /\ ChatIdle /\ CommandIdle /\ RealtimeIdle /\ PromptIdle
    /\ DebounceIdle /\ CacheIdle /\ maxFileSize = 0

SpecFind == InitFind /\ [][FindNext]_vars

ApplyNext ==
    \/ StartAutoApply
    \/ \E h \in Runs : ReceiveApplyAll(h)
    \/ \E h \in Runs : GateOpens(h)
    \/ \E h \in Runs : GateBacksUp(h)
    \/ \E h \in Runs : GateWrites(h)

InitApply ==
    ApplyInit /\ GateIdle /\ RetryIdle /\ LoaderIdle /\ BatchIdle
    /\ FilterIdle /\ FindIdle /\ ReplyIdle /\ IssuesIdle /\ AcquireIdle
    /\ ChatIdle /\ CommandIdle /\ RealtimeIdle /\ PromptIdle
    /\ DebounceIdle /\ CacheIdle /\ maxFileSize = 0

SpecApply == InitApply /\ [][ApplyNext]_vars

ReplyNext ==
    \/ ReceiveResponse
    \/ ParseReview
    \/ PostToChat
    \/ RenderPanel

InitReply ==
    ReplyInit /\ GateIdle /\ RetryIdle /\ LoaderIdle /\ BatchIdle
    /\ FilterIdle /\ FindIdle /\ ApplyIdle /\ IssuesIdle /\ AcquireIdle
    /\ ChatIdle /\ CommandIdle /\ RealtimeIdle /\ PromptIdle
    /\ DebounceIdle /\ CacheIdle /\ maxFileSize = 0

SpecReply == InitReply /\ [][ReplyNext]_vars

IssuesNext ==
    \/ ExtractFromReview
    \/ SetDiagnostics
    \/ ClampDiagnostics

InitIssues ==
    IssuesInit /\ GateIdle /\ RetryIdle /\ LoaderIdle /\ BatchIdle
    /\ FilterIdle /\ FindIdle /\ ApplyIdle /\ ReplyIdle /\ AcquireIdle
    /\ ChatIdle /\ CommandIdle /\ RealtimeIdle /\ PromptIdle
    /\ DebounceIdle /\ CacheIdle /\ maxFileSize = 0

SpecIssues == InitIssues /\ [][IssuesNext]_vars

AcquireNext ==
    \/ ActivateOfExtension
    \/ ActivateAcquires
    \/ ActivateEnds
    \/ CommandAcquires
    \/ TryProvider
    \/ CatchSetupError
    \/ AnswerWarning
    \/ ConfigureLLM

InitAcquire ==
    AcquireInit /\ GateIdle /\ RetryIdle /\ LoaderIdle /\ BatchIdle
    /\ FilterIdle /\ FindIdle /\ ApplyIdle /\ ReplyIdle /\ IssuesIdle
    /\ ChatIdle /\ CommandIdle /\ RealtimeIdle /\ PromptIdle
    /\ DebounceIdle /\ CacheIdle /\ maxFileSize = 0

SpecAcquire == InitAcquire /\ [][AcquireNext]_vars

ChatNext ==
    \/ ReceiveSendMessage
    \/ \E t \in Turns : CompleteTurn(t)
    \/ \E t \in Turns : FailTurn(t)
    \/ DisposeChatPanel
    \/ ClearHistory

InitChat ==
    ChatInit /\ GateIdle /\ RetryIdle /\ LoaderIdle /\ BatchIdle
    /\ FilterIdle /\ FindIdle /\ ApplyIdle /\ ReplyIdle /\ IssuesIdle
    /\ AcquireIdle /\ CommandIdle /\ RealtimeIdle /\ PromptIdle
    /\ DebounceIdle /\ CacheIdle /\ maxFileSize = 0

SpecChat == InitChat /\ [][ChatNext]_vars

CommandNext ==
    \/ AcquireForCommand
    \/ ReviewSelection
    \/ FetchGitDiff
    \/ ReviewNextDiff
    \/ ShowDiffSummary
    \/ RefactorFile

InitCommand ==
    CommandInit /\ GateIdle /\ RetryIdle /\ LoaderIdle /\ BatchIdle
    /\ FilterIdle /\ FindIdle /\ ApplyIdle /\ ReplyIdle /\ IssuesIdle
    /\ AcquireIdle /\ ChatIdle /\ RealtimeIdle /\ PromptIdle
    /\ DebounceIdle /\ CacheIdle /\ maxFileSize = 0

SpecCommand == InitCommand /\ [][CommandNext]_vars

RealtimeNext ==
    \/ ToggleRealTime
    \/ \E p \in RtPaths : FileEvent(p)
    \/ \E p \in RtPaths : StatReturns(p)
    \/ \E p \in RtPaths : TimerFires(p)

InitRealtime ==
    RealtimeInit /\ GateIdle /\ RetryIdle /\ LoaderIdle /\ BatchIdle
    /\ FilterIdle /\ FindIdle /\ ApplyIdle /\ ReplyIdle /\ IssuesIdle
    /\ AcquireIdle /\ ChatIdle /\ CommandIdle /\ PromptIdle /\ DebounceIdle
    /\ CacheIdle

SpecRealtime == InitRealtime /\ [][RealtimeNext]_vars

\* fs.stat resolves and a timer that stays set fires: the event loop runs
\* every callback that is due.
SpecRealtimeFair ==
    /\ SpecRealtime
    /\ \A p \in RtPaths : WF_vars(StatReturns(p))
    /\ \A p \in RtPaths : WF_vars(TimerFires(p))

PromptNext ==
    \/ BuildPrompt
    \/ SendPrompt

InitPrompt ==
    PromptInit /\ GateIdle /\ RetryIdle /\ LoaderIdle /\ BatchIdle
    /\ FilterIdle /\ FindIdle /\ ApplyIdle /\ ReplyIdle /\ IssuesIdle
    /\ AcquireIdle /\ ChatIdle /\ CommandIdle /\ RealtimeIdle
    /\ DebounceIdle /\ CacheIdle /\ maxFileSize = 0

SpecPrompt == InitPrompt /\ [][PromptNext]_vars

TimerIds == 1..MaxEvents

DebounceNext ==
    \/ \E p \in RtPaths : WatcherEvent(p)
    \/ \E p \in RtPaths : StatResolves(p)
    \/ \E p \in RtPaths : DocumentChanged(p)
    \/ \E id \in TimerIds : TimerExpires(id)
    \/ \E id \in TimerIds : ReviewCompletes(id)
    \/ ToggleDebounced
    \/ DisposeManager

InitDebounce ==
    DebounceInit /\ GateIdle /\ RetryIdle /\ LoaderIdle /\ BatchIdle
    /\ FilterIdle /\ FindIdle /\ ApplyIdle /\ ReplyIdle /\ IssuesIdle
    /\ AcquireIdle /\ ChatIdle /\ CommandIdle /\ RealtimeIdle /\ PromptIdle
    /\ CacheIdle /\ maxFileSize = 0

SpecDebounce == InitDebounce /\ [][DebounceNext]_vars

CacheNext ==
    \/ \E p \in RtPaths : InitializeContext(p)
    \/ \E p \in RtPaths, t \in CacheTexts : ChangeOnDisk(p, t)
    \/ \E p \in RtPaths : DeleteOnDisk(p)
    \/ \E p \in RtPaths : HandleFileChange(p)
    \/ \E p \in RtPaths : HandleFileDelete(p)

InitCache ==
    CacheInit /\ GateIdle /\ RetryIdle /\ LoaderIdle /\ BatchIdle
    /\ FilterIdle /\ FindIdle /\ ApplyIdle /\ ReplyIdle /\ IssuesIdle
    /\ AcquireIdle /\ ChatIdle /\ CommandIdle /\ RealtimeIdle /\ PromptIdle
    /\ DebounceIdle /\ maxFileSize = 0

SpecCache == InitCache /\ [][CacheNext]_vars

-----------------------------------------------------------------------------
(* Properties of the File Mutation Gate (SpecGate) *)

Has(seq, e) == \E i \in 1..Len(seq) : seq[i] = e

Count(seq, e) == Cardinality({i \in 1..Len(seq) : seq[i] = e})

\* C1: whenever the gate overwrites the target file, exactly one backup was
\* created by this run, it holds the original on-disk content, and it was
\* created before the overwrite; the run never creates a second backup.
C1_BackupBeforeOverwrite ==
    /\ Count(gateEvents, "backup") <= 1
    /\ Len(backups) = Count(gateEvents, "backup")
    /\ \A i \in 1..Len(gateEvents) :
          gateEvents[i] = "write" =>
             /\ Cardinality({j \in 1..(i - 1) : gateEvents[j] = "backup"}) = 1
             /\ backups = <<origDisk>>
    /\ diskContent # origDisk => Has(gateEvents, "write")

C1_Witness ==
    /\ gatePc = "done"
    /\ Has(gateEvents, "write")
    /\ currentContent # newContent
    /\ diskContent = newContent
    /\ diskContent # origDisk

\* C2: when the backup step or the write step (applyEdit, save) has failed,
\* the finished gate has reported an error to the log and to the user, has
\* not reported the change as applied, and the file on disk is the original.
C2_FailureEndsInError ==
    (gatePc = "done" /\ gateFailedAt \in {"backup", "edit", "save"}) =>
        /\ Has(gateEvents, "logError")
        /\ Has(gateEvents, "showError")
        /\ gateResult # "true"
        /\ ~Has(gateEvents, "showApplied")
        /\ diskContent = origDisk

\* C36: the gate reports the change as applied (returns true, shows "Changes
\* applied") only if the target file then holds the proposed replacement.
C36_AppliedMeansWritten ==
    (gateResult = "true" \/ Has(gateEvents, "showApplied")) =>
        diskContent = newContent

\* What the code does keep: the same when applyEdit and save both resolved
\* true.
C36_OfAcceptedEdit ==
    (gateResult = "true" /\ gateFailedAt = "none") =>
        /\ Has(gateEvents, "showApplied")
        /\ diskContent = newContent

\* C3: when the proposed replacement equals the document's current content
\* the gate returns false and has created no backup, shown no diff, asked no
\* confirmation and written nothing.
C3_IdenticalIsNoOp ==
    (currentContent = newContent) =>
        /\ gatePc = "done"
        /\ gateResult = "false"
        /\ backups = <<>>
        /\ gateEvents = <<"logNoChanges">>
        /\ apply = "none"
        /\ diskContent = origDisk
        /\ docText = currentContent

C3_Witness ==
    /\ gatePc = "done"
    /\ currentContent = newContent
    /\ autoApply

\* C4: with auto-apply off, an answer other than Apply (Cancel, or the
\* prompt dismissed) ends the gate with no backup, the file and the document
\* unchanged, and the result false.
C4_DeclinedWritesNothing ==
    (~autoApply /\ apply \in {"Cancel", "undefined"}) =>
        /\ gatePc = "done"
        /\ gateResult = "false"
        /\ backups = <<>>
        /\ ~Has(gateEvents, "backup")
        /\ ~Has(gateEvents, "write")
        /\ diskContent = origDisk
        /\ docText = currentContent

C4_Witness ==
    /\ ~autoApply
    /\ apply = "undefined"
    /\ gatePc = "done"

\* C5: with auto-apply on, the gate never shows a diff nor asks, and goes
\* from the difference check to the backup step; with auto-apply off the
\* backup and write steps are reached only after the answer Apply, which
\* follows the diff.
C5_AutoApplySkipsConfirmation ==
    /\ autoApply =>
          /\ gatePc \notin {"diff", "confirm"}
          /\ ~Has(gateEvents, "diff")
          /\ ~Has(gateEvents, "confirm")
          /\ apply = "none"
          /\ (currentContent \notin {-1, newContent} /\ gateEvents = <<>>)
                => gatePc = "backup"
    /\ (~autoApply /\ (\/ gatePc \in {"backup", "edit", "save"}
                       \/ gateFailedAt \in {"backup", "edit", "save"}
                       \/ Has(gateEvents, "backup")
                       \/ Has(gateEvents, "write"))) =>
          /\ apply = "Apply"
          /\ \E i, j \in 1..Len(gateEvents) :
                i < j /\ gateEvents[i] = "diff" /\ gateEvents[j] = "confirm"

C5_Witness ==
    /\ autoApply
    /\ gatePc = "done"
    /\ gateResult = "true"
    /\ gateEvents = <<"backup", "write", "logApplied", "showApplied">>

-----------------------------------------------------------------------------
(* Properties of the Retry Dispatcher (SpecRetry) *)

AllFailed == \A k \in 1..Len(outcomes) : ~outcomes[k].ok

RetryEnded == retryPc \in {"returned", "failed"}

\* C6: when every backend call fails, getLLMResponse ends only after exactly
\* apiMaxRetries calls, it ends by raising an error, and no step follows.
C6_SustainedFailure ==
    /\ Len(outcomes) <= apiMaxRetries
    /\ retryPc = "call" => Len(outcomes) < apiMaxRetries
    /\ (AllFailed /\ RetryEnded) =>
          /\ retryPc = "failed"
          /\ Len(outcomes) = apiMaxRetries
          /\ retryResult.kind = "error"
          /\ ~ENABLED RetryNext

C6_Witness ==
    /\ retryPc = "failed"
    /\ apiMaxRetries = 3
    /\ Len(outcomes) = 3

\* C7: when call K is the first to succeed, it is the last call: the
\* dispatcher has returned, what it returned is the sanitized reply of call
\* K (the "No response" text when that is empty), K - 1 sleeps were made and
\* no step follows.
C7_SuccessStops ==
    \A k \in 1..Len(outcomes) :
        outcomes[k].ok =>
           /\ k = Len(outcomes)
           /\ k <= apiMaxRetries
           /\ retryPc = "returned"
           /\ retryResult.kind = "value"
           /\ LET clean == SelectSeq(outcomes[k].text,
                                     LAMBDA t : t \in {"text", "<b>"})
              IN  retryResult.text =
                     IF clean = <<>> THEN NoResponse ELSE clean
           /\ Len(sleeps) = k - 1
           /\ ~ENABLED RetryNext

C7_Witness ==
    /\ retryPc = "returned"
    /\ Len(outcomes) = 3
    /\ outcomes[3].text = <<"text">>

\* C8: the i-th sleep lasts apiRetryDelay * 2^(i-1), the delays never
\* decrease, every sleep follows a failed call and is followed by another
\* call: at the end there is one sleep less than calls.
C8_ExponentialBackoff ==
    /\ \A i \in 1..Len(sleeps) : sleeps[i] = apiRetryDelay * 2^(i - 1)
    /\ \A i \in 1..(Len(sleeps) - 1) : sleeps[i] <= sleeps[i + 1]
    /\ Len(sleeps) <= Len(outcomes)
    /\ \A i \in 1..Len(sleeps) : ~outcomes[i].ok
    /\ retryPc = "sleep" => Len(sleeps) = Len(outcomes)
                            /\ Len(outcomes) < apiMaxRetries
    /\ retryPc \in {"call", "returned", "failed"} =>
          Len(sleeps) = IF RetryEnded /\ Len(outcomes) > 0
                           THEN Len(outcomes) - 1 ELSE Len(outcomes)

C8_Witness ==
    /\ retryPc = "failed"
    /\ Len(sleeps) = 3
    /\ sleeps[3] = 4 * apiRetryDelay

\* The calls that failed for the credential: the backend answered 401.
CredentialFailures ==
    {k \in 1..Len(outcomes) :
        ~outcomes[k].ok /\ outcomes[k].text = <<"401">>}

\* C24: a failure caused by a missing or invalid credential (the backend
\* answering 401) is fatal: the call that met it is the last call, the
\* dispatcher has ended by raising an error and no backoff sleep follows it.
C24_CredentialFailureIsFatal ==
    \A k \in CredentialFailures :
        /\ k = Len(outcomes)
        /\ retryPc = "failed"
        /\ Len(sleeps) < k

-----------------------------------------------------------------------------
(* Properties of the Content Loader (SpecLoader) *)

\* C9: a file of more bytes than maxFileSize is never reviewed and its
\* content is never handed to getLLMResponse; a file of exactly maxFileSize
\* bytes, when stat and read succeed, is reviewed with its content.
C9_CeilingEnforced ==
    /\ StatSize(file) > maxFileSize =>
          /\ sent = <<>>
          /\ loaderResult # "reviewed"
    /\ (StatSize(file) = maxFileSize /\ loaderPc = "done"
          /\ loaderResult \notin {"threwStatError", "threwReadError",
                                  "readErrorReview"}) =>
          /\ loaderResult = "reviewed"
          /\ sent = <<Decode(file)>>

\* C9 holds of readFileContent as extension.ts and part_004 have it: there
\* the test is made on stat.size.
C9_OfReadFileContent == loaderImpl # "part_002" => C9_CeilingEnforced

-----------------------------------------------------------------------------
(* Properties of review-project (SpecBatch) *)

ReviewsOf(u) == {i \in 1..Len(results) : results[i].uri = u}

\* C10: when the batch has ended, every enumerated file has exactly one
\* FileReview among the results; for a file above the ceiling it is the
\* "too large" placeholder and no request was posted, for every other file
\* it is the reply of the one request posted for it.
C10_OneReviewPerFile ==
    (batchImpl = "extension.ts" /\ batchPc = "done") =>
       \A u \in 1..Len(fileUris) :
          /\ Cardinality(ReviewsOf(u)) = 1
          /\ IF fileUris[u] > maxFileSize
                THEN /\ \A i \in ReviewsOf(u) : results[i].review = "tooLarge"
                     /\ backendCalls[u] = 0
                ELSE /\ \A i \in ReviewsOf(u) : results[i].review = "llm"
                     /\ backendCalls[u] = 1

\* C12: once the cancellation has been requested, a worker that reaches the
\* boundary between two files takes no further file: the queue keeps the
\* files it held when the request was made.
C12_NoDispatchAfterCancel ==
    [][(batchImpl = "extension.ts" /\ batchPc = "running" /\ cancelRequested)
          => queue' = queue]_vars

\* C13: when the run was cancelled, the final output of the command still
\* holds the reviews that processFilesConcurrently had completed.
C13_CancelledStillReported ==
    batchPc = "cancelled" => summary = results

\* The failures the batch counted: the counter of part_004, the logged
\* "Error processing" lines of extension.ts.
CountedFailures == IF batchImpl = "part_004" THEN errors ELSE Len(errorLog)

LoggedFailuresOf(u) == {i \in 1..Len(errorLog) : errorLog[i] = u}

Busy == {w \in Workers : workers[w].pc \in {"read", "llm"}}

QueuedAt(u) == {i \in 1..Len(queue) : queue[i] = u}

HeldBy(u) == {w \in Busy : workers[w].uri = u}

C35_ProgressAfterEachFile ==
    batchPc = "running" =>
       /\ shownProgress.processed = Len(results)
       /\ shownProgress.errors = Len(errorLog)

\* What the code does keep: in part_004 the number of files shown as
\* processed is that of the successes, and the errors shown are those counted
\* when the last success was shown.
C35_OfPart004 ==
    (batchImpl = "part_004" /\ batchPc = "running") =>
       /\ shownProgress.processed = Len(results)
       /\ shownProgress.errors <= Len(errorLog)

\* C34: an error is written to the log before it is shown on a user-facing
\* surface: while the review panel or a notification shows the error of the
\* command, the log holds it.
C34_LoggedBeforeShown ==
    \A i \in 1..Len(errorTrail) :
       errorTrail[i] \in {"panel", "notification"} =>
          \E j \in 1..(i - 1) : errorTrail[j] = "log"

\* What the code does keep: the order in extension.ts, and in both revisions
\* the log before the error notification.
C34_OfNotification ==
    \A i \in 1..Len(errorTrail) :
       (errorTrail[i] = "notification" \/ batchImpl = "extension.ts") =>
          (errorTrail[i] = "log" \/ \E j \in 1..(i - 1) : errorTrail[j] = "log")

\* C15: with no file enumerated the command ends with the "No files found"
\* panel: nothing is queued, no request is posted, no summary is rendered.
C15_NoFilesOutcome ==
    (Len(fileUris) = 0 /\ batchPc # "start") =>
       /\ batchPc = "noFiles"
       /\ panelHtml = "noFiles"
       /\ summary = <<>>
       /\ results = <<>>
       /\ \A w \in Workers : workers[w].pc = "unused"

C15_Witness ==
    /\ Len(fileUris) = 0
    /\ batchPc = "noFiles"
    /\ panelHtml = "noFiles"

\* C18: the panel shows a final report (the summary or the cancellation
\* notice) only when no worker holds a file and the queue is empty.
C18_SummaryAfterWorkers ==
    panelHtml \in {"summary", "cancelled"} =>
       /\ \A w \in Workers : workers[w].pc \in {"done", "unused"}
       /\ queue = <<>>

C18_Witness ==
    /\ panelHtml = "summary"
    /\ Len(fileUris) = MaxFiles
    /\ reviewBatchSize = 1
    /\ Len(summary) = MaxFiles

-----------------------------------------------------------------------------
(* Properties of the Inclusion Filter (SpecFilter) *)

MatchesSome(path, patterns) ==
    \E i \in 1..Len(patterns) : minimatch(path, patterns[i])

\* C11: shouldIncludeFile returns true exactly when the path matches at least
\* one include pattern and no exclude pattern; a path that matches no include
\* pattern is excluded whatever the exclude list is; the call leaves the
\* path, the pattern lists and the log as they were.
C11_IncludedIffMatch ==
    filterPc = "returned" =>
       /\ filterResult = (MatchesSome(relativePath, includePatterns)
                            /\ ~MatchesSome(relativePath, excludePatterns))
       /\ ~MatchesSome(relativePath, includePatterns) => filterResult = FALSE
       /\ filterLog = <<>>

C11_Witness ==
    /\ filterPc = "returned"
    /\ Len(includePatterns) = 2
    /\ ~minimatch(relativePath, includePatterns[1])
    /\ minimatch(relativePath, includePatterns[2])
    /\ Len(excludePatterns) = 2
    /\ filterResult = TRUE

-----------------------------------------------------------------------------
(* Properties of the file enumeration (SpecFind) *)

\* C16: one enumeration never yields more than maxFiles files, whatever the
\* directory tree and the workspace folders are.
C16_AtMostMaxFiles ==
    findPc = "enumerated" => Len(found) <= maxFiles

\* C16 holds of the findFiles of part_004, which keeps a single fileCount.
C16_OfPart004 == findImpl = "part_004" => C16_AtMostMaxFiles

-----------------------------------------------------------------------------
(* Properties of the apply loop (SpecApply) *)

PathOf(h) == reviews[runs[h].idx]

\* C17: every path occurs once among the reviews of the batch, and no run of
\* the gate is between its backup and the end of its write on a path while
\* another run of the gate has started on the same path.
C17_OneGatePerPath ==
    /\ \A i, j \in 1..Len(reviews) : i # j => reviews[i] # reviews[j]
    /\ \A h, k \in Runs :
          (h # k /\ runs[h].pc = "write"
                 /\ runs[k].pc \in {"open", "backup", "write"})
             => PathOf(h) # PathOf(k)

\* C17 holds of the loop of extension.ts, which the command runs once.
C17_OfExtension == applyImpl = "extension.ts" => C17_OneGatePerPath

\* C28: a backup or write failure on one file of the batch is reported,
\* leaves that file unwritten by that run and does not stop the batch: the
\* run still takes the gate to every later review with suggested changes,
\* so that it ends only behind the last review.
C28_FailureDoesNotStopBatch ==
    /\ \A h \in Runs :
          runs[h].pc = "failed" => runs[h].idx = Len(reviews)
    /\ \A i \in 1..Len(applyErrors) :
          ~\E j \in 1..Len(mutations) :
               /\ mutations[j].run = applyErrors[i].run
               /\ mutations[j].path = applyErrors[i].path
               /\ mutations[j].step = "write"

\* C28 holds of the loop of extension.ts, whose gate catches its failures.
C28_OfExtension == applyImpl = "extension.ts" => C28_FailureDoesNotStopBatch

-----------------------------------------------------------------------------
(* Properties of the reply's way to its readers (SpecReply) *)

\* A text that holds no markup tag outside the allow-list.
IsSanitized(text, allowedTags) ==
    \A i \in 1..Len(text) : text[i] \in MarkupTags => text[i] \in allowedTags

FencePlaces(text) == {i \in 1..Len(text) : text[i] = Fence}

\* text is what is left of inner when the white space at its two ends is
\* taken away.
IsTrimOf(text, inner) ==
    /\ text = <<>> \/ (text[1] # WhiteSpace /\ text[Len(text)] # WhiteSpace)
    /\ \E a \in 1..(Len(inner) + 1) :
          /\ a + Len(text) - 1 <= Len(inner)
          /\ text = SubSeq(inner, a, a + Len(text) - 1)
          /\ \A k \in 1..Len(inner) :
                (k < a \/ k > a + Len(text) - 1) => inner[k] = WhiteSpace

\* C20: when the review holds a fenced block, suggestedChanges is what lies
\* between the first fence and the fence that follows it, without the white
\* space at its ends (a fence around foo gives foo; what comes after the
\* closing fence plays no part); when it holds no fenced block the field is
\* absent.
C20_FirstFencedBlock ==
    replyPc \in {"parsed", "done"} /\ commandPath = "reviewFile" =>
       LET places == FencePlaces(review)
       IN  IF Cardinality(places) >= 2
              THEN LET open  == CHOOSE i \in places :
                                   \A j \in places : i <= j
                       close == CHOOSE i \in places \ {open} :
                                   \A j \in places \ {open} : i <= j
                   IN  /\ suggestedChanges.present
                       /\ IsTrimOf(suggestedChanges.text,
                                   SubSeq(review, open + 1, close - 1))
              ELSE suggestedChanges = [present |-> FALSE, text |-> <<>>]

C20_Witness ==
    /\ replyPc = "done"
    /\ commandPath = "reviewFile"
    /\ review = <<Fence, WhiteSpace, "foo", Fence, Fence>>
    /\ suggestedChanges = [present |-> TRUE, text |-> <<"foo">>]

-----------------------------------------------------------------------------
(* Properties of the issue extraction (SpecIssues) *)

\* C21: issue extraction never makes a review fail: every line of the form
\* "Line N: S severity - M" yields one Issue and the other lines none, and
\* an Issue whose line lies outside the file is clamped by the consumer
\* that builds the diagnostics, so that building them raises no error.
C21_ExtractionNeverFails ==
    /\ issuesPc # "thrown"
    /\ issuesPc \notin {"off", "extract"} =>
           Len(issues) =
               Cardinality({i \in 1..Len(reviewLines) :
                                reviewLines[i].form = "issue"})
    /\ \A c \in {"reviewFile", "handleFileEvent"} :
           \A i \in 1..Len(diagnostics[c]) :
               diagnostics[c][i] \in 0..(lineCount - 1)

\* What the code does keep: the diagnostics handleFileEvent sets are
\* clamped into the file, once reviewFile has returned to it.
C21_OfHandleFileEvent ==
    issuesPc = "clamped" =>
        /\ Len(diagnostics.handleFileEvent) = Len(issues)
        /\ \A i \in 1..Len(issues) :
               diagnostics.handleFileEvent[i] \in 0..(lineCount - 1)

-----------------------------------------------------------------------------
(* Properties of activation and credential acquisition (SpecAcquire) *)

\* C22: getLLMProvider returns an adapter only after that adapter's
\* testConnection returned true in the same acquisition; every other end of
\* the acquisition is an error raised to the caller; and between two
\* switches of the backend at most maxRetries connection tests are made.
C22_AdapterOnlyAfterTest ==
    /\ adapter # "none" =>
          /\ acqPc = "returned"
          /\ lastTest.getLLMProvider.result
          /\ lastTest.getLLMProvider.provider = adapter
          /\ lastTest.getLLMProvider.acq = acquisitions
    /\ acqPc = "returned" => adapter # "none"
    /\ acqPc = "thrown" => adapter = "none"
    /\ testsSinceSwitch <= maxRetries
    /\ attempts <= maxRetries
    /\ acqPc = "try" => attempts < maxRetries

\* An adapter is returned by the second test after a switch of the backend.
C22_Witness ==
    /\ acqPc = "returned"
    /\ switches = 1
    /\ attempts = 1
    /\ testsSinceSwitch = 2
    /\ adapter = llmProvider

\* C23: when the connection test of a credential fails, the credential is
\* not kept as the stored credential, and no later test runs on a stored
\* credential that failed before without the user being asked again.
C23_FailedCredentialInvalidated ==
    /\ \A by \in {"getLLMProvider", "configureLLM"} :
          (/\ lastTest[by].provider \in {"flowise", "openai"}
           /\ ~lastTest[by].result
           /\ acqPc = "caught" \/ by = "configureLLM")
              => secrets[KeyOf(lastTest[by].provider)]
                     # lastTest[by].credential
    /\ ~lastTest.getLLMProvider.reusedFailed

\* C25: once activate has run, openChat, reviewProject and reviewFile are
\* registered, whatever the configuration and the backend.
C25_CommandsRegistered ==
    activatePc = "done" => RequiredCommands \subseteq commands

-----------------------------------------------------------------------------
(* Properties of the chat history (SpecChat) *)

\* The last n messages of the log, all of them when the log is shorter.
MostRecent(n) ==
    SubSeq(chatLog, (IF Len(chatLog) > n THEN Len(chatLog) - n ELSE 0) + 1,
           Len(chatLog))

\* C26: after every completed chat turn the retained history holds at most
\* messageHistoryLimit messages, for every limit from 0 on, and they are the
\* most recent messages in their order.
C26_HistoryWithinLimit ==
    /\ Len(chatHistory) <= messageHistoryLimit
    /\ chatHistory = MostRecent(messageHistoryLimit)

\* What the code does keep: the same for every limit of 1 or more.
C26_OfPositiveLimit ==
    messageHistoryLimit >= 1 =>
        /\ Len(chatHistory) <= messageHistoryLimit
        /\ chatHistory = MostRecent(messageHistoryLimit)

\* C37: a chat turn whose backend request fails leaves the history as it
\* was, and the history never holds a message of a failed turn or a user
\* message that is not followed at once by the assistant message of its turn.
C37_FailedTurnLeavesHistory ==
    /\ [](\A i \in 1..Len(chatHistory) :
            /\ chatHistory[i].turn \notin failedTurns
            /\ chatHistory[i].role = "user" =>
                   /\ i < Len(chatHistory)
                   /\ chatHistory[i + 1] =
                          [role |-> "assistant", turn |-> chatHistory[i].turn])
    /\ [][failedTurns' # failedTurns => chatHistory' = chatHistory]_vars

\* A turn has failed while the history held the pair of an earlier turn, and
\* a later turn was answered.
C37_Witness ==
    /\ 2 \in failedTurns
    /\ Len(chatHistory) = 4
    /\ chatHistory[1].turn = 1
    /\ chatHistory[3].turn = 3

\* C38: once the panel was closed or the history cleared, the history is
\* empty and stays empty until the next sendMessage, also when a request
\* was in flight at that moment.
C38_EmptyUntilNextMessage ==
    chatSince = "reset" => chatHistory = <<>>

\* What the code does keep: the same when no request is in flight at the
\* moment of the reset.
C38_OfNoRequestInFlight ==
    [][(chatSince' = "reset" /\ pendingTurns = {}) =>
           chatHistory' = <<>>]_vars

-----------------------------------------------------------------------------
(* Properties of the review commands (SpecCommand) *)

\* C27: reviewSelection and reviewGitDiff never mutate a file: no execution
\* of either enters the File Mutation Gate, creates a backup or writes a
\* workspace file.
C27_ReviewOnlyCommands ==
    \A i \in 1..Len(fileEffects) :
        fileEffects[i].command \notin {"reviewSelection", "reviewGitDiff"}

\* reviewGitDiff has shown the summary of two reviewed diffs and touched no
\* file.
C27_Witness ==
    /\ command = "reviewGitDiff"
    /\ cmdPc = "done"
    /\ cmdPanel = "summary"
    /\ Len(diffReviews) = 2
    /\ fileEffects = <<>>

\* reviewSelection has shown its review and touched no file.
C27_WitnessOfSelection ==
    /\ command = "reviewSelection"
    /\ cmdPanel = "review"
    /\ fileEffects = <<>>

-----------------------------------------------------------------------------
(* Properties of the real-time code access (SpecRealtimeFair) *)

\* C29: after the toggleRealTime command has switched the mode on, a create
\* or change event for an included file within the size ceiling is
\* eventually followed by a re-review of that file (or the mode is switched
\* off first); and while the mode is off no event enters the handler.
C29_EventLeadsToReview ==
    /\ \A p \in RtPaths :
          (p \in awaited /\ isRealTimeEnabled)
              ~> (p \notin awaited \/ ~isRealTimeEnabled)
    /\ [][~isRealTimeEnabled => statPending' \subseteq statPending]_vars

\* What the code does keep: the same, for a manager that was constructed
\* with realTimeDiagnostics set.
C29_OfConfiguredDiagnostics ==
    \A p \in RtPaths :
        (realTimeDiagnostics /\ p \in awaited /\ isRealTimeEnabled)
            ~> (p \notin awaited \/ ~isRealTimeEnabled)

-----------------------------------------------------------------------------
(* Properties of the request string (SpecPrompt) *)

\* sub occurs in text as a run of consecutive words.
Contains(sub, text) ==
    \E i \in 0..(Len(text) - Len(sub)) :
        SubSeq(text, i + 1, i + Len(sub)) = sub

\* C30: the request string built for a file review contains the file's path
\* and the file's content, with the built-in template and with a template
\* the user has set.
C30_PromptHoldsPathAndContent ==
    promptPc \in {"built", "sent"} =>
        /\ Contains(targetPath, prompt)
        /\ Contains(targetContent, prompt)

\* What the code does keep: the same when no template is set, and in
\* extension.ts always.
C30_OfDefaultTemplate ==
    (promptPc \in {"built", "sent"}
        /\ (reviewPrompt = <<>> \/ promptImpl = "extension.ts")) =>
        /\ Contains(targetPath, prompt)
        /\ Contains(targetContent, prompt)

-----------------------------------------------------------------------------
(* The answers to the warning of getLLMProvider (SpecAcquire) *)

\* C40: after the allowed attempts have failed, the answer Retry leads to
\* another connection test before the acquisition can fail, and the answer
\* Open Settings, or no answer, ends the acquisition with a failure.
C40_RetryTestsAgain ==
    /\ warningAnswer = "Retry" => acqPc # "thrown"
    /\ warningAnswer \in {"Open Settings", "none"} => acqPc = "thrown"

\* What the code does keep: every answer but a switch of the backend ends
\* the acquisition with a failure.
C40_OfEveryAnswer ==
    warningAnswer \in {"Retry", "Open Settings", "none"} => acqPc = "thrown"

-----------------------------------------------------------------------------
(* Properties of the debounce timers (SpecDebounce) *)

ArmedFor(p) == {id \in armedTimers : timerKeys[id] = p}

RunningFor(p) == {id \in runningTimers : timerKeys[id] = p}

\* C31: for every path at most one debounce timer is pending and at most one
\* debounced review is running, at any time.
C31_OneTimerOneReview ==
    \A p \in RtPaths :
        /\ Cardinality(ArmedFor(p)) <= 1
        /\ Cardinality(RunningFor(p)) <= 1

\* What the code does keep: a call of debounce cancels the timer that the
\* map holds for the path.
C31_OfMappedTimer ==
    [][\A p \in RtPaths :
          (timersByKey'[p] # timersByKey[p] /\ timersByKey'[p] # 0) =>
              /\ timersByKey[p] \notin armedTimers'
              /\ timersByKey'[p] \in armedTimers']_vars

\* C39: after a switch-off or a disposal no timer that was armed before it
\* can still fire.
C39_NoTimerSurvivesOff ==
    \A id \in armedTimers : timerEpoch[id] = switchOffs

\* What the code does keep: the timers that the map holds at the switch-off
\* or the disposal are cancelled.
C39_OfMappedTimers ==
    [][switchOffs' # switchOffs =>
          \A p \in RtPaths : timersByKey[p] \notin armedTimers']_vars

-----------------------------------------------------------------------------
(* Properties of the content cache (SpecCache) *)

\* C32: the read that follows a change notification returns the text that is
\* on disk then, never a text cached before the change; and a delete
\* notification removes the cache entry and the project-context entry of its
\* path.
C32_ChangeInvalidatesCache ==
    /\ [](lastRead.content = lastRead.onDisk)
    /\ [][\A p \in RtPaths :
             (p \in cacheDeletes /\ p \notin cacheDeletes') =>
                 (fileCache'[p] = "none" /\ projectContext'[p] = "none")]_vars

\* What the code does keep: the part on the delete notification, and a read
\* of a path that has no cache entry.
C32_OfDeleteAndMiss ==
    [][\A p \in RtPaths :
          /\ (p \in cacheDeletes /\ p \notin cacheDeletes') =>
                 (fileCache'[p] = "none" /\ projectContext'[p] = "none")
          /\ (lastRead' # lastRead /\ lastRead'.path = p
                 /\ fileCache[p] = "none") =>
                 lastRead'.content = cacheDisk[p]]_vars

=============================================================================
